---- MODULE Spec2Model ----
(***************************************************************************)
(* A model of the rebalancing control loop of command-line-trader:         *)
(*   - the scheduler loop `run` of clt/run.py,                             *)
(*   - the order poll loop `_wait_for_pending_orders` of clt/position.py,  *)
(*   - the price fetcher `get_price` of clt/run.py,                        *)
(*   - the chunked fetching, the scoring, the ranking, the diff and the    *)
(*     execution step of `rebalance` of clt/run.py,                        *)
(*   - the commands `enter` and `exit_` of clt/position.py,                *)
(*   - the universe builder `fetch_symbols` of clt/run.py,                 *)
(*   - the watchlist commands of clt/watch.py.                             *)
(* Each part has its own specification over the shared variables; a part   *)
(* that a specification does not run keeps its initial value.              *)
(***************************************************************************)
EXTENDS Integers, Sequences, FiniteSets, TLC

(***************************************************************************)
(* Bounds of the model.                                                    *)
(***************************************************************************)
\* UTC days 0 .. MaxDay-1 are modelled.
MaxDay == 2
\* Invocation counters saturate at MaxCount ("0, 1, many").
MaxCount == 2
\* Order ids 1 .. MaxOrders can be pending.
MaxOrders == 2
\* The poll-round counter saturates at MaxPolls; the loop itself goes on.
MaxPolls == 3

(***************************************************************************)
(* Time.  Instants are UTC minutes since 00:00 of day 0.  A date is a day   *)
(* number.  The trading calendar is the NYSE one in winter time: a session *)
(* opens 09:30 New York = 14:30 UTC and closes 16:00 = 21:00 UTC, or, on   *)
(* an early-close day, 13:00 = 18:00 UTC.                                  *)
(***************************************************************************)
MinutesPerDay == 24 * 60
Days == 0 .. (MaxDay - 1)
Horizon == MaxDay * MinutesPerDay - 1
\* Dates that a local clock can show while UTC is within Days.
Dates == -1 .. MaxDay

OpenMinute == 14 * 60 + 30
CloseMinute == 21 * 60
EarlyCloseMinute == 18 * 60
\* now.tz_convert("America/Chicago"): UTC-6.
ChicagoOffset == -(6 * 60)
\* timedelta(minutes=10), the pre-open window of the universe refresh.
PreOpenWindow == 10
\* The hour of the day at which the rebalance fires.
RebalanceHour == 12

DayKinds == {"closed", "full", "early"}
\* The offsets (minutes east of UTC) of the host's local zone that are tried:
\* America/Chicago, UTC and Asia/Tokyo.
TZOffsets == {ChicagoOffset, 0, 9 * 60}

\* What fetch_symbols can return: a list of symbols, possibly empty.
FetchResults == {<<>>, <<"BBB", "AAA">>}

VARIABLES
  \* --- scheduler (clt/run.py run) ---
  cal,                  \* the trading calendar: day -> kind of day
  tz,                   \* the host's local offset from UTC, in minutes
  pc,                   \* "loop" | "rebalancing" | "refreshing" | "stopped"
  now,                  \* the clock reading of the latest tick (UTC)
  today,                \* the local date of the latest tick
  symbols,              \* the cached universe
  last_symbol_refresh,  \* date of the last universe refresh
  last_rebalance,       \* date of the last rebalance
  rebalCount,           \* history: date -> rebalance invocations (saturating)
  refreshCount,         \* history: date -> fetch_symbols invocations (saturating)
  emptyOn,              \* history: dates whose refresh returned an empty list
  \* --- order poll loop (clt/position.py _wait_for_pending_orders) ---
  initial_ids,          \* the pending set the generator was called with
  pending_order_ids,    \* the pending set
  orders,               \* the statuses gathered in the current round: id -> status
  todo,                 \* ids of `orders` the for loop has not visited yet
  emitted,              \* history: the orders yielded so far, in order
  polls,                \* history: number of poll rounds so far (saturating)
  seenTerminal,         \* history: id -> round of its first terminal status, or 0
  ppc,                  \* "while" | "poll" | "for" | "done" | "raised" | "off"
  \* --- price fetcher (clt/run.py rebalance.get_price) ---
  gpc,                  \* symbol -> "idle" | "loop" | "done" | "raised"
  retries,              \* symbol -> remaining retries
  requests,             \* history: symbol -> requests issued
  timeouts,             \* history: symbol -> <<connect timeouts, read timeouts>>
  last,                 \* history: symbol -> outcome and body of the latest request
  result,               \* symbol -> the value returned by get_price
  \* --- scoring (clt/run.py rebalance, after the fetches) ---
  rpc,                  \* "gather" | "sleep" | "scoring" | "ranked" | "raised" | "off"
  idx,                  \* entries of minute_prices the scoring loop has passed
  momentum_quality,     \* the candidate set: pairs <<symbol, slope>>
  \* --- chunked fetching (clt/run.py rebalance, the loop over chunked_tasks) ---
  chunk,                \* number of chunks whose fetches were started
  inflight,             \* fetches of the current chunk that have not returned yet
  pauses,               \* history: inter-chunk sleeps completed
  completed,            \* the symbols of the current chunk whose fetch has returned,
                        \* in the order of their return
  gathered,             \* minute_prices as accumulated so far: the symbols of its entries
  bpc,                  \* "for" | "gather" | "sleep" | "done" | "raised" | "off"
  \* --- diff and execution (clt/run.py rebalance, after the ranking) ---
  top_ranked_momentum,  \* the target set, set(top_ranked_momentum)
  position_names,       \* the names of the positions the broker reports
  names_to_buy,
  names_to_sell,
  calls,                \* history: the calls of position.exit_ / position.enter_ made
  placed,               \* history: the orders placed with the broker
  xpc,                  \* "positions" | "exits" | "entries" | "done" | "failed" |
                        \* "raised" | "off"
  \* --- the entry command (clt/position.py enter) ---
  args,                 \* name, allocation, stop_loss (0: none), preview, and the
                        \* user's answer to the confirmation prompt
  broker,               \* the broker: positions held, quote price, account base,
                        \* orders placed
  entry_order,          \* `order`, the order the poll loop yielded
  epc,                  \* "gather" | "confirm" | "buy" | "wait" | "stop" | "done" |
                        \* "held" | "too_big" | "bad_stop" | "aborted" | "not_filled" |
                        \* "raised" | "off"
  \* --- the exit command (clt/position.py exit_) ---
  exit_name,            \* the name argument
  book,                 \* the broker: positions (name -> size), orders (id -> name
                        \* and status), market sells placed
  cancels,              \* the cancellations: issued, completed, failed (sets of ids)
  kpc,                  \* "gather" | "cancel" | "sell" | "done" | "not_held" |
                        \* "raised" | "off"
  \* --- the universe builder (clt/run.py fetch_symbols) ---
  market,               \* what the data provider and the broker answer
  daily_prices,         \* the kinds of symbols kept so far, with their numbers
  fpc,                  \* "tickers" | "prices" | "balance" | "returned" | "raised" | "off"
  \* --- the watchlist commands (clt/watch.py) ---
  watchlist,            \* context.watchlist: the list of items [name, notes]
  command               \* the command that ran last: [op, name, notes]

schedVars == <<cal, tz, pc, now, today, symbols, last_symbol_refresh,
               last_rebalance, rebalCount, refreshCount, emptyOn>>
pollVars == <<initial_ids, pending_order_ids, orders, todo, emitted, polls,
              seenTerminal, ppc>>
priceVars == <<gpc, retries, requests, timeouts, last, result>>
scoreVars == <<rpc, idx, momentum_quality>>
batchVars == <<chunk, inflight, pauses, completed, gathered, bpc>>
execVars == <<top_ranked_momentum, position_names, names_to_buy, names_to_sell,
              calls, placed, xpc>>
enterVars == <<args, broker, entry_order, epc>>
exitVars == <<exit_name, book, cancels, kpc>>
fetchVars == <<market, daily_prices, fpc>>
watchVars == <<watchlist, command>>
lateVars == <<exitVars, fetchVars, watchVars>>
restVars == <<scoreVars, batchVars, execVars, enterVars, lateVars>>
\* What the actions of one part leave unchanged.
scoreFrame == <<schedVars, pollVars, priceVars, batchVars, execVars, enterVars, lateVars>>
batchFrame == <<schedVars, pollVars, priceVars, scoreVars, execVars, enterVars, lateVars>>
execFrame == <<schedVars, pollVars, priceVars, scoreVars, batchVars, enterVars, lateVars>>
enterFrame == <<schedVars, pollVars, priceVars, scoreVars, batchVars, execVars, lateVars>>
exitFrame == <<schedVars, pollVars, priceVars, scoreVars, batchVars, execVars, enterVars,
               fetchVars, watchVars>>
fetchFrame == <<pollVars, priceVars, scoreVars, batchVars, execVars, enterVars, exitVars,
                watchVars>>
watchFrame == <<schedVars, pollVars, priceVars, scoreVars, batchVars, execVars, enterVars,
                exitVars, fetchVars>>
vars == <<schedVars, pollVars, priceVars, restVars>>

(***************************************************************************)
(* The scheduler loop.                                                     *)
(***************************************************************************)
\* Timestamp.today().date(): the date the host's local clock shows at t.
LocalDate(t, z) == (t + z) \div MinutesPerDay

\* now.tz_convert("America/Chicago").hour
ChicagoHour(t) == ((t + ChicagoOffset) % MinutesPerDay) \div 60

\* calendar.is_session(d)
is_session(d) == d \in Days /\ cal[d] # "closed"

\* calendar.session_first_minute(d)
session_first_minute(d) == d * MinutesPerDay + OpenMinute

\* calendar.session_last_minute(d): the last trading minute, one before the close.
session_last_minute(d) ==
  d * MinutesPerDay + (IF cal[d] = "early" THEN EarlyCloseMinute ELSE CloseMinute) - 1

\* The instants at which the model lets the loop read the clock: per day, the
\* instants on and around every boundary the loop compares `now` with.
MinuteMarks ==
  {0,
   OpenMinute - PreOpenWindow, OpenMinute - PreOpenWindow + 1,
   OpenMinute - 1, OpenMinute,
   EarlyCloseMinute - 1,
   RebalanceHour * 60 - ChicagoOffset,
   (RebalanceHour + 1) * 60 - ChicagoOffset - 1, (RebalanceHour + 1) * 60 - ChicagoOffset,
   CloseMinute - 1, CloseMinute}
  \cup {(MinutesPerDay - z) % MinutesPerDay : z \in TZOffsets}
TickTimes == {t \in 0 .. Horizon : (t % MinutesPerDay) \in MinuteMarks}

\* The instants at which the loop may be started: 00:00 UTC of day 0 and each
\* local midnight of that day, so that every local date of day 0 is a start date.
StartTimes == {(MinutesPerDay - z) % MinutesPerDay : z \in TZOffsets}

Bump(c) == IF c < MaxCount THEN c + 1 ELSE MaxCount

\* run.py:202  first_minute <= now < last_minute
MarketOpen(t, d) == session_first_minute(d) <= t /\ t < session_last_minute(d)

\* run.py:210  (first_minute - timedelta(minutes=10)) < now < first_minute
PreOpenBug(t, d) ==
  session_first_minute(d) - PreOpenWindow <= t /\ t < session_first_minute(d)
PreOpen(t, d) ==
  session_first_minute(d) - PreOpenWindow < t /\ t < session_first_minute(d)

\* run.py:205-206  the hour is 12 in Chicago and no rebalance is recorded for today
RebalanceDueBug(t, d) == ChicagoHour(t) = RebalanceHour /\ last_rebalance <= d
RebalanceDue(t, d) == ChicagoHour(t) = RebalanceHour /\ last_rebalance < d

\* run.py:212  not symbols or last_symbol_refresh < today
RefreshDueBug(d) == symbols = <<>> \/ last_symbol_refresh <= d
RefreshDue(d) == symbols = <<>> \/ last_symbol_refresh < d

\* What one pass of the loop body decides (run.py:188-215), up to its first await
\* of rebalance or fetch_symbols.
Decision(t, d) ==
  IF ~is_session(d) THEN "sleep"
  ELSE IF MarketOpen(t, d)
       THEN (IF RebalanceDue(t, d) THEN "rebalance" ELSE "sleep")
       ELSE IF PreOpen(t, d) /\ RefreshDue(d) THEN "refresh" ELSE "sleep"

\* last_rebalance is initialised before the loop (run.py:185); a tick leaves it alone.
TickLastRebalanceReset(d) == d - 1
TickLastRebalance(d) == last_rebalance

\* One tick: the loop wakes up at instant t and runs its body up to the first await.
Tick(t) ==
  /\ pc = "loop"
  /\ t >= now
  /\ now' = t
  /\ today' = LocalDate(t, tz)
  /\ last_rebalance' = TickLastRebalance(today')
  /\ LET what == Decision(t, today') IN
       /\ pc' = CASE what = "rebalance" -> "rebalancing"
                  [] what = "refresh" -> "refreshing"
                  [] OTHER -> "loop"
       /\ rebalCount' = IF what = "rebalance"
                        THEN [rebalCount EXCEPT ![today'] = Bump(@)] ELSE rebalCount
       /\ refreshCount' = IF what = "refresh"
                          THEN [refreshCount EXCEPT ![today'] = Bump(@)] ELSE refreshCount
  /\ UNCHANGED <<cal, tz, symbols, last_symbol_refresh, emptyOn>>
  /\ UNCHANGED <<pollVars, priceVars, restVars>>

\* run.py:122  rebalance is handed the list object that run caches; it reads it
\* once, to build the list of fetches, and never writes to it.
EmptiedUniverse(u) == <<>>
UniverseAfterRebalance(u) == u

\* run.py:208-209  rebalance returned: record today, then sleep.
RebalanceReturn ==
  /\ pc = "rebalancing"
  /\ last_rebalance' = today
  /\ symbols' = UniverseAfterRebalance(symbols)
  /\ pc' = "loop"
  /\ UNCHANGED <<cal, tz, now, today, last_symbol_refresh, rebalCount,
                 refreshCount, emptyOn>>
  /\ UNCHANGED <<pollVars, priceVars, restVars>>

\* run.py:208-209  the assignment last_rebalance = today follows the await and is
\* not reached when rebalance raises.
RecordedAnyway(previous, d) == d
LastRebalanceAfterRaise(previous, d) == previous

\* run.py:208  rebalance raised: nothing in run catches it, the loop is over.
RebalanceRaise ==
  /\ pc = "rebalancing"
  /\ pc' = "stopped"
  /\ symbols' = UniverseAfterRebalance(symbols)
  /\ last_rebalance' = LastRebalanceAfterRaise(last_rebalance, today)
  /\ UNCHANGED <<cal, tz, now, today, last_symbol_refresh,
                 rebalCount, refreshCount, emptyOn>>
  /\ UNCHANGED <<pollVars, priceVars, restVars>>

\* run.py:214-215  fetch_symbols returned r: cache it and record today.
RefreshReturn(r) ==
  /\ pc = "refreshing"
  /\ symbols' = r
  /\ last_symbol_refresh' = today
  /\ emptyOn' = IF r = <<>> THEN emptyOn \cup {today} ELSE emptyOn
  /\ pc' = "loop"
  /\ UNCHANGED <<cal, tz, now, today, last_rebalance, rebalCount, refreshCount>>
  /\ UNCHANGED <<pollVars, priceVars, restVars>>

\* run.py:214  fetch_symbols raised: the loop is over.
RefreshRaise ==
  /\ pc = "refreshing"
  /\ pc' = "stopped"
  /\ UNCHANGED <<cal, tz, now, today, symbols, last_symbol_refresh, last_rebalance,
                 rebalCount, refreshCount, emptyOn>>
  /\ UNCHANGED <<pollVars, priceVars, restVars>>

\* The parts that a specification does not run.
PollOff ==
  /\ initial_ids = {}
  /\ pending_order_ids = {}
  /\ orders = <<>>
  /\ todo = {}
  /\ emitted = <<>>
  /\ polls = 0
  /\ seenTerminal = <<>>
  /\ ppc = "off"

ScoreOff ==
  /\ rpc = "off"
  /\ idx = 0
  /\ momentum_quality = {}

BatchOff ==
  /\ chunk = 0
  /\ inflight = 0
  /\ pauses = 0
  /\ completed = <<>>
  /\ gathered = <<>>
  /\ bpc = "off"

ExecOff ==
  /\ top_ranked_momentum = {}
  /\ position_names = {}
  /\ names_to_buy = {}
  /\ names_to_sell = {}
  /\ calls = <<>>
  /\ placed = {}
  /\ xpc = "off"

EnterOff ==
  /\ args = <<>>
  /\ broker = <<>>
  /\ entry_order = <<>>
  /\ epc = "off"

ExitOff ==
  /\ exit_name = ""
  /\ book = <<>>
  /\ cancels = <<>>
  /\ kpc = "off"

FetchOff ==
  /\ market = <<>>
  /\ daily_prices = <<>>
  /\ fpc = "off"

WatchOff ==
  /\ watchlist = <<>>
  /\ command = <<>>

LateOff ==
  /\ ExitOff
  /\ FetchOff
  /\ WatchOff

RestOff ==
  /\ ScoreOff
  /\ BatchOff
  /\ ExecOff
  /\ EnterOff
  /\ LateOff

PriceOff ==
  /\ gpc = <<>>
  /\ retries = <<>>
  /\ requests = <<>>
  /\ timeouts = <<>>
  /\ last = <<>>
  /\ result = <<>>

\* The state after run.py:183-185, the loop started at instant t0 with universe r.
SchedStart(t0, r) ==
  /\ pc = "loop"
  /\ now = t0
  /\ today = LocalDate(t0, tz)
  /\ symbols = r
  /\ last_symbol_refresh = today
  /\ last_rebalance = today - 1
  /\ rebalCount = [d \in Dates |-> 0]
  /\ refreshCount = [d \in Dates |-> IF d = today THEN 1 ELSE 0]
  /\ emptyOn = IF r = <<>> THEN {today} ELSE {}

Init ==
  /\ cal \in [Days -> DayKinds]
  /\ tz \in TZOffsets
  /\ \E t0 \in StartTimes, r \in FetchResults :
       SchedStart(t0, r)
  /\ PollOff
  /\ PriceOff
  /\ RestOff

Next ==
  \/ \E t \in TickTimes : Tick(t)
  \/ RebalanceReturn
  \/ RebalanceRaise
  \/ \E r \in FetchResults : RefreshReturn(r)
  \/ RefreshRaise

Spec == Init /\ [][Next]_vars

(***************************************************************************)
(* The order poll loop, _wait_for_pending_orders.                          *)
(***************************************************************************)
\* broker.py:41-52  OrderStatus
OrderStatus ==
  {"open", "filled", "rejected", "expired", "canceled", "pending",
   "partially_filled", "calculated", "accepted_for_bidding", "error", "held"}

OrderIds == 1 .. MaxOrders

\* position.py:29-40  the branches that do pending_order_ids.remove(order.id)
RemovesNoCanceled(status) ==
  \/ status = "filled"
  \/ status \in {"rejected", "expired", "error"}
Removes(status) ==
  \/ status = "filled"
  \/ status \in {"rejected", "expired", "error"}
  \/ status = "canceled"

\* position.py:29-40  the branches that do `yield order`
YieldsAlsoOpen(status) ==
  \/ status = "filled"
  \/ status \in {"rejected", "expired", "error"}
  \/ status = "canceled"
  \/ status = "open"
Yields(status) ==
  \/ status = "filled"
  \/ status \in {"rejected", "expired", "error"}
  \/ status = "canceled"

\* `yield order`: the consumer receives the orders in the order they are yielded.
YieldFirst(seq, order) == <<order>> \o seq
Yield(seq, order) == Append(seq, order)

BumpPolls(n) == IF n < MaxPolls THEN n + 1 ELSE MaxPolls

\* position.py:19  while pending_order_ids: with a timeout after MaxPolls rounds.
PollWhileTimeout ==
  /\ ppc = "while"
  /\ ppc' = IF pending_order_ids = {} \/ polls >= MaxPolls THEN "done" ELSE "poll"
  /\ UNCHANGED <<initial_ids, pending_order_ids, orders, todo, emitted, polls,
                 seenTerminal>>
  /\ UNCHANGED <<schedVars, priceVars, restVars>>

\* position.py:19  while pending_order_ids:
PollWhile ==
  /\ ppc = "while"
  /\ ppc' = IF pending_order_ids = {} THEN "done" ELSE "poll"
  /\ UNCHANGED <<initial_ids, pending_order_ids, orders, todo, emitted, polls,
                 seenTerminal>>
  /\ UNCHANGED <<schedVars, priceVars, restVars>>

\* position.py:21-26  sleep, then gather order_status of every pending id: the
\* broker answers each with any status.
PollGather(answer) ==
  /\ ppc = "poll"
  /\ orders' = answer
  /\ todo' = pending_order_ids
  /\ polls' = BumpPolls(polls)
  /\ seenTerminal' =
       [o \in OrderIds |->
          IF o \in pending_order_ids /\ seenTerminal[o] = 0
             /\ answer[o] \in {"filled", "rejected", "expired", "error", "canceled"}
          THEN polls' ELSE seenTerminal[o]]
  /\ ppc' = "for"
  /\ UNCHANGED <<initial_ids, pending_order_ids, emitted>>
  /\ UNCHANGED <<schedVars, priceVars, restVars>>

\* position.py:23-26, broker.py:391-396  an order_status call raised (a status code
\* other than 200): gather raises and the generator is over.
PollGatherRaise ==
  /\ ppc = "poll"
  /\ ppc' = "raised"
  /\ UNCHANGED <<initial_ids, pending_order_ids, orders, todo, emitted, polls,
                 seenTerminal>>
  /\ UNCHANGED <<schedVars, priceVars, restVars>>

\* position.py:28-42  one pass of the for loop, on order o of the gathered list.
\* The list is in the iteration order of the pending set, which is any order.
PollFor(o) ==
  /\ ppc = "for"
  /\ o \in todo
  /\ todo' = todo \ {o}
  /\ pending_order_ids' =
       IF Removes(orders[o]) THEN pending_order_ids \ {o} ELSE pending_order_ids
  /\ emitted' =
       IF Yields(orders[o])
       THEN Yield(emitted, [id |-> o, status |-> orders[o], round |-> polls])
       ELSE emitted
  /\ UNCHANGED <<initial_ids, orders, polls, seenTerminal, ppc>>
  /\ UNCHANGED <<schedVars, priceVars, restVars>>

\* position.py:28  the for loop is exhausted: back to the while test.
PollForEnd ==
  /\ ppc = "for"
  /\ todo = {}
  /\ ppc' = "while"
  /\ UNCHANGED <<initial_ids, pending_order_ids, orders, todo, emitted, polls,
                 seenTerminal>>
  /\ UNCHANGED <<schedVars, priceVars, restVars>>

\* The generator is called with any set of order ids.
PollInit ==
  /\ cal = [d \in Days |-> "closed"]
  /\ tz = 0
  /\ SchedStart(0, <<>>)
  /\ initial_ids \in SUBSET OrderIds
  /\ pending_order_ids = initial_ids
  /\ orders = <<>>
  /\ todo = {}
  /\ emitted = <<>>
  /\ polls = 0
  /\ seenTerminal = [o \in OrderIds |-> 0]
  /\ ppc = "while"
  /\ PriceOff
  /\ RestOff

PollNext ==
  \/ PollWhile
  \/ \E answer \in [pending_order_ids -> OrderStatus] : PollGather(answer)
  \/ PollGatherRaise
  \/ \E o \in OrderIds : PollFor(o)
  \/ PollForEnd

PollSpec == PollInit /\ [][PollNext]_vars

(***************************************************************************)
(* The price fetcher, rebalance.get_price, one coroutine per symbol, run   *)
(* concurrently by asyncio.gather.                                         *)
(***************************************************************************)
\* run.py:98  retries = 3
InitialRetries == 3

\* The symbols fetched concurrently.
PriceSymbols == {"AAA", "BBB"}

\* What a request can come to: a response that is not a 429, a 429, one of the two
\* timeouts that are caught, or any other exception.
Outcomes == {"response", "too_many_requests", "connect_timeout", "read_timeout", "error"}

\* JSON values: a list of bars (their close prices), the empty object {}, some
\* other object (the body of an error response), or a list of strings.
JsonList(closes) == [kind |-> "list", bars |-> closes]
JsonStrings == [kind |-> "strings", bars |-> <<>>]
JsonEmptyDict == [kind |-> "empty_dict", bars |-> <<>>]
JsonDict == [kind |-> "dict", bars |-> <<>>]
\* No value yet.
NoValue == [kind |-> "none", bars |-> <<>>]

\* resp.json() of a response that is not a 429.
Bodies ==
  {JsonList(<<>>), JsonList(<<10>>), JsonList(<<10, 10>>), JsonList(<<10, 11>>),
   JsonList(<<10, 12, 11>>), JsonDict, JsonStrings}

\* What get_price returns on a 429 (run.py:113) and on exhaustion (run.py:120).
EmptyDict == JsonEmptyDict
EmptyList == JsonList(<<>>)

\* run.py:111  resp.status_code == httpx.codes.TOO_MANY_REQUESTS
TooManyRequestsNever(outcome) == FALSE
TooManyRequests(outcome) == outcome = "too_many_requests"

\* run.py:99  while retries > 0
RetriesLeftInclusive(r) == r >= 0
RetriesLeft(r) == r > 0

\* run.py:115-118  each of the two except clauses does retries -= 1
AfterTimeout(r, outcome) == r - 1

\* run.py:97-98  the coroutine of symbol s starts.
GetPriceStart(s) ==
  /\ gpc[s] = "idle"
  /\ gpc' = [gpc EXCEPT ![s] = "loop"]
  /\ retries' = [retries EXCEPT ![s] = InitialRetries]
  /\ UNCHANGED <<requests, timeouts, last, result>>
  /\ UNCHANGED <<schedVars, pollVars, restVars>>

\* run.py:99-118  one pass of the while loop: a request and what comes of it.
GetPriceRequest(s, outcome, body) ==
  /\ gpc[s] = "loop"
  /\ RetriesLeft(retries[s])
  /\ requests' = [requests EXCEPT ![s] = @ + 1]
  /\ last' = [last EXCEPT ![s] = [outcome |-> outcome,
                                  body |-> IF outcome = "response" THEN body ELSE NoValue]]
  /\ CASE TooManyRequests(outcome) ->
            /\ result' = [result EXCEPT ![s] = EmptyDict]
            /\ gpc' = [gpc EXCEPT ![s] = "done"]
            /\ UNCHANGED <<retries, timeouts>>
       [] outcome \in {"response", "too_many_requests"} ->
            /\ result' = [result EXCEPT ![s] = body]
            /\ gpc' = [gpc EXCEPT ![s] = "done"]
            /\ UNCHANGED <<retries, timeouts>>
       [] outcome = "connect_timeout" ->
            /\ retries' = [retries EXCEPT ![s] = AfterTimeout(@, outcome)]
            /\ timeouts' = [timeouts EXCEPT ![s] = <<@[1] + 1, @[2]>>]
            /\ UNCHANGED <<gpc, result>>
       [] outcome = "read_timeout" ->
            /\ retries' = [retries EXCEPT ![s] = AfterTimeout(@, outcome)]
            /\ timeouts' = [timeouts EXCEPT ![s] = <<@[1], @[2] + 1>>]
            /\ UNCHANGED <<gpc, result>>
       [] OTHER ->
            /\ gpc' = [gpc EXCEPT ![s] = "raised"]
            /\ UNCHANGED <<retries, timeouts, result>>
  /\ UNCHANGED <<schedVars, pollVars, restVars>>

\* run.py:119-120  the while loop is over: return symbol, []
GetPriceExhausted(s) ==
  /\ gpc[s] = "loop"
  /\ ~RetriesLeft(retries[s])
  /\ result' = [result EXCEPT ![s] = EmptyList]
  /\ gpc' = [gpc EXCEPT ![s] = "done"]
  /\ UNCHANGED <<retries, requests, timeouts, last>>
  /\ UNCHANGED <<schedVars, pollVars, restVars>>

(***************************************************************************)
(* Scoring, the loop of rebalance over the gathered results.  Slopes and   *)
(* correlations are kept exact: with x = 1..n and closes y,                *)
(*   r = Sxy / sqrt(Sxx * Syy)   and   slope = Sxy / Sxx,                  *)
(* each of Sxy, Sxx, Syy scaled by n * n.                                  *)
(***************************************************************************)
\* run.py:37  look_back_period = 130
look_back_period == 130
\* run.py:39  quality_threshold = 0.93, in hundredths
quality_threshold == 93
\* run.py:38  portfolio_size = 25
portfolio_size == 25

\* The symbols of the chunk, in the order of the universe.
PriceOrder == <<"AAA", "BBB">>

\* run.py:125  gather returns the results in the order of its arguments, the
\* symbols of the universe.
minute_prices == [i \in 1 .. Len(symbols) |-> <<symbols[i], result[symbols[i]]>>]

\* seq[-n:]
LastN(seq, n) == IF Len(seq) <= n THEN seq ELSE SubSeq(seq, Len(seq) - n + 1, Len(seq))

RECURSIVE SumTo(_, _)
SumTo(f, n) == IF n = 0 THEN 0 ELSE f[n] + SumTo(f, n - 1)
SumOf(f) == SumTo(f, Len(f))

\* run.py:137  rng = list(range(1, len(close_prices) + 1))
Rng(y) == [i \in 1 .. Len(y) |-> i]
Sxy(y) == Len(y) * SumOf([i \in 1 .. Len(y) |-> i * y[i]]) - SumOf(Rng(y)) * SumOf(y)
Sxx(y) == Len(y) * SumOf([i \in 1 .. Len(y) |-> i * i]) - SumOf(Rng(y)) * SumOf(Rng(y))
Syy(y) == Len(y) * SumOf([i \in 1 .. Len(y) |-> y[i] * y[i]]) - SumOf(y) * SumOf(y)

\* run.py:133-136  data[-look_back_period:] raises TypeError on a value that is not
\* a list (a dict cannot be indexed by a slice), and so does x["close"] on an item
\* that is a string.
SliceRaisesNever(data) == FALSE
SliceRaises(data) == data.kind # "list"

\* run.py:139, 143-145  correlation raises StatisticsError on fewer than two points
\* and on a constant input; the error is caught.
CorrelationRaises(y) == Len(y) < 2 \/ Sxx(y) = 0 \/ Syy(y) = 0

\* run.py:135  except TypeError
CaughtTypeError(error) == error = "TypeError"
\* run.py:143  except Exception
CaughtNever(error) == FALSE
CaughtException(error) == error \in {"TypeError", "StatisticsError"}

\* run.py:133-145  the error that one pass of the scoring loop lets out, "none" if
\* it lets none out.
Escapes(data) ==
  IF SliceRaises(data)
  THEN (IF CaughtTypeError("TypeError") THEN "none" ELSE "TypeError")
  ELSE IF CorrelationRaises(LastN(data.bars, look_back_period))
       THEN (IF CaughtException("StatisticsError") THEN "none" ELSE "StatisticsError")
       ELSE "none"

\* run.py:140  r_value < quality_threshold
BelowThreshold(y) ==
  ~(Sxy(y) > 0 /\ 10000 * Sxy(y) * Sxy(y) >= quality_threshold * quality_threshold * Sxx(y) * Syy(y))

\* run.py:147  linear_regression(rng, close_prices).slope, as <<numerator, denominator>>
Slope(y) == <<Sxy(y), Sxx(y)>>

\* Slope a is less than, greater than slope b; the denominators are positive.
SlopeLess(a, b) == a[1] * b[2] < b[1] * a[2]
SlopeGreater(a, b) == a[1] * b[2] > b[1] * a[2]

\* run.py:154  sorted(momentum_quality, key=slope, reverse=True): the sort is
\* stable, an entry goes behind the entries of the same slope that are before it.
RECURSIVE InsertBySlope(_, _)
InsertBySlope(e, s) ==
  IF s = <<>> THEN <<e>>
  ELSE IF SlopeGreater(e[2], Head(s)[2]) THEN <<e>> \o s
       ELSE <<Head(s)>> \o InsertBySlope(e, Tail(s))

RECURSIVE SortedBySlope(_)
SortedBySlope(s) ==
  IF s = <<>> THEN <<>>
  ELSE InsertBySlope(s[Len(s)], SortedBySlope(SubSeq(s, 1, Len(s) - 1)))

\* The entries of set S for the first k symbols of the universe, in the order of
\* the universe.
RECURSIVE InOrder(_, _)
InOrder(S, k) ==
  IF k = 0 THEN <<>>
  ELSE InOrder(S, k - 1)
         \o (IF \E e \in S : e[1] = symbols[k]
             THEN <<CHOOSE e \in S : e[1] = symbols[k]>>
             ELSE <<>>)

Reverse(s) == [i \in 1 .. Len(s) |-> s[Len(s) + 1 - i]]

\* Two of the orders in which the iteration of the set momentum_quality can yield
\* its entries: the order of the universe and its reverse.
Iterations ==
  {InOrder(momentum_quality, Len(symbols)),
   Reverse(InOrder(momentum_quality, Len(symbols)))}

\* run.py:152-155  top_ranked_momentum, as the set of its names (run.py:162-163)
TopRankedMomentum(iteration) ==
  LET ranked == SortedBySlope(iteration)
      n == IF Len(ranked) < portfolio_size THEN Len(ranked) ELSE portfolio_size
  IN  {ranked[i][1] : i \in 1 .. n}

\* run.py:125-126  every fetch of the chunk has returned: gather returns, rebalance
\* sleeps and goes on to scoring.
GatherReturn ==
  /\ rpc = "gather"
  /\ \A s \in PriceSymbols : gpc[s] = "done"
  /\ rpc' = "scoring"
  /\ UNCHANGED <<idx, momentum_quality>>
  /\ UNCHANGED scoreFrame

\* run.py:125  a fetch of the chunk has raised: gather raises and so does rebalance.
GatherRaise ==
  /\ rpc = "gather"
  /\ \E s \in PriceSymbols : gpc[s] = "raised"
  /\ rpc' = "raised"
  /\ UNCHANGED <<idx, momentum_quality>>
  /\ UNCHANGED scoreFrame

\* run.py:131-149  one pass of the scoring loop.
Score ==
  /\ rpc = "scoring"
  /\ idx < Len(minute_prices)
  /\ idx' = idx + 1
  /\ LET symbol == minute_prices[idx + 1][1]
         data == minute_prices[idx + 1][2]
         close_prices == LastN(data.bars, look_back_period)
     IN /\ momentum_quality' =
             IF SliceRaises(data) THEN momentum_quality
             ELSE IF CorrelationRaises(close_prices) THEN momentum_quality
             ELSE IF BelowThreshold(close_prices) THEN momentum_quality
             ELSE momentum_quality \cup {<<symbol, Slope(close_prices)>>}
        /\ rpc' = IF Escapes(data) = "none" THEN rpc ELSE "raised"
  /\ UNCHANGED scoreFrame

\* run.py:131, 152-155  the scoring loop is over: the candidates are ranked.
ScoreEnd ==
  /\ rpc = "scoring"
  /\ idx = Len(minute_prices)
  /\ rpc' = "ranked"
  /\ \E iteration \in Iterations :
       top_ranked_momentum' = TopRankedMomentum(iteration)
  /\ UNCHANGED <<idx, momentum_quality>>
  /\ UNCHANGED <<position_names, names_to_buy, names_to_sell, calls, placed, xpc>>
  /\ UNCHANGED <<schedVars, pollVars, priceVars, batchVars, enterVars, lateVars>>

PriceInit ==
  /\ cal = [d \in Days |-> "closed"]
  /\ tz = 0
  /\ SchedStart(0, PriceOrder)
  /\ PollOff
  /\ gpc = [s \in PriceSymbols |-> "idle"]
  /\ retries = [s \in PriceSymbols |-> 0]
  /\ requests = [s \in PriceSymbols |-> 0]
  /\ timeouts = [s \in PriceSymbols |-> <<0, 0>>]
  /\ last = [s \in PriceSymbols |-> [outcome |-> "none", body |-> NoValue]]
  /\ result = [s \in PriceSymbols |-> NoValue]
  /\ rpc = "gather"
  /\ idx = 0
  /\ momentum_quality = {}
  /\ BatchOff
  /\ ExecOff
  /\ EnterOff
  /\ LateOff

PriceNext ==
  \/ \E s \in PriceSymbols : GetPriceStart(s)
  \/ \E s \in PriceSymbols, outcome \in Outcomes, body \in Bodies :
       GetPriceRequest(s, outcome, body)
  \/ \E s \in PriceSymbols : GetPriceExhausted(s)
  \/ GatherReturn
  \/ GatherRaise
  \/ Score
  \/ ScoreEnd

PriceSpec == PriceInit /\ [][PriceNext]_vars

(***************************************************************************)
(* Chunked fetching, the loop of rebalance over chunked_tasks.  The        *)
(* universe is the list 1, 2, .., n; of the fetches of a chunk only their  *)
(* number is kept.                                                         *)
(***************************************************************************)
\* The universe has at most MaxUniverse symbols.
MaxUniverse == 201

\* run.py:122  the chunk size
ChunkSize == 100

Universe(n) == [i \in 1 .. n |-> i]

\* toolz.partition(n, seq) with no pad: zip(*[iter(seq)] * n), the tuples of n
\* successive items; zip stops at the first tuple it cannot fill.
PartitionAll(n, seq) == IF seq = <<>> THEN <<>> ELSE <<seq>>
Partition(n, seq) ==
  [k \in 1 .. (Len(seq) \div n) |-> SubSeq(seq, (k - 1) * n + 1, k * n)]

\* run.py:122  chunked_tasks
chunked_tasks == Partition(ChunkSize, symbols)

\* The orders in which the fetches of a chunk return that are followed: the order
\* of the chunk, its reverse, and the odd places before the even ones.
OddsFirst(c) ==
  [i \in 1 .. Len(c) |->
     IF 2 * i - 1 <= Len(c) THEN c[2 * i - 1] ELSE c[2 * (i - (Len(c) + 1) \div 2)]]
CompletionOrders(c) == {c, Reverse(c), OddsFirst(c)}

\* run.py:125  asyncio.gather(*chunk) returns the results in the order of its
\* arguments, whatever the order in which they completed.
GatherAsCompleted(children, completion) == completion
GatherResults(children, completion) == children

\* run.py:124-125  the for loop takes the next chunk and gather starts its fetches.
BatchChunk ==
  /\ bpc = "for"
  /\ chunk < Len(chunked_tasks)
  /\ chunk' = chunk + 1
  /\ inflight' = Len(chunked_tasks[chunk + 1])
  /\ completed' = <<>>
  /\ bpc' = "gather"
  /\ UNCHANGED <<pauses, gathered>>
  /\ UNCHANGED batchFrame

\* run.py:96-120  one of the fetches in flight returns.
BatchFetchReturn ==
  /\ bpc = "gather"
  /\ inflight > 0
  /\ inflight' = inflight - 1
  /\ \E o \in CompletionOrders(chunked_tasks[chunk]) :
       /\ SubSeq(o, 1, Len(completed)) = completed
       /\ completed' = SubSeq(o, 1, Len(completed) + 1)
  /\ UNCHANGED <<chunk, pauses, gathered, bpc>>
  /\ UNCHANGED batchFrame

\* run.py:125  one of the fetches in flight raises: gather raises and so does rebalance.
BatchFetchRaise ==
  /\ bpc = "gather"
  /\ inflight > 0
  /\ bpc' = "raised"
  /\ UNCHANGED <<chunk, inflight, pauses, completed, gathered>>
  /\ UNCHANGED batchFrame

\* run.py:125  every fetch of the chunk has returned: gather returns and its
\* results are appended to minute_prices.
BatchGather ==
  /\ bpc = "gather"
  /\ inflight = 0
  /\ gathered' = gathered \o GatherResults(chunked_tasks[chunk], completed)
  /\ bpc' = "sleep"
  /\ UNCHANGED <<chunk, inflight, pauses, completed>>
  /\ UNCHANGED batchFrame

\* run.py:126  await asyncio.sleep(2)
BatchSleep ==
  /\ bpc = "sleep"
  /\ pauses' = pauses + 1
  /\ bpc' = "for"
  /\ UNCHANGED <<chunk, inflight, completed, gathered>>
  /\ UNCHANGED batchFrame

\* run.py:124  the for loop is exhausted.
BatchEnd ==
  /\ bpc = "for"
  /\ chunk = Len(chunked_tasks)
  /\ bpc' = "done"
  /\ UNCHANGED <<chunk, inflight, pauses, completed, gathered>>
  /\ UNCHANGED batchFrame

\* rebalance is called with a cached universe of any size up to MaxUniverse.
BatchInit ==
  /\ cal = [d \in Days |-> "closed"]
  /\ tz = 0
  /\ \E n \in 0 .. MaxUniverse : SchedStart(0, Universe(n))
  /\ PollOff
  /\ PriceOff
  /\ ScoreOff
  /\ chunk = 0
  /\ inflight = 0
  /\ pauses = 0
  /\ completed = <<>>
  /\ gathered = <<>>
  /\ bpc = "for"
  /\ ExecOff
  /\ EnterOff
  /\ LateOff

BatchNext ==
  \/ BatchChunk
  \/ BatchFetchReturn
  \/ BatchFetchRaise
  \/ BatchGather
  \/ BatchSleep
  \/ BatchEnd

BatchSpec == BatchInit /\ [][BatchNext]_vars

(***************************************************************************)
(* Scoring and ranking of one gathered chunk of 100 symbols, the symbols   *)
(* 1 .. 100.  Of the symbols 1, 4, 7, .. the first m have a series that    *)
(* passes the threshold; every other symbol has a series that does not.    *)
(***************************************************************************)
\* The numbers of symbols that pass.
Goods == {0, 1, 2, portfolio_size, portfolio_size + 1, portfolio_size + 2}
\* Their slopes: rising or falling with the symbol, or all the same.
Patterns == {"rising", "falling", "ties"}

\* What gather returned for symbol i.
GatheredFor(i, m, pattern) ==
  IF i % 3 = 1 /\ (i + 2) \div 3 <= m
  THEN JsonList(<<10, 10 + (CASE pattern = "rising" -> (i + 2) \div 3
                              [] pattern = "falling" -> 30 - ((i + 2) \div 3)
                              [] OTHER -> 1)>>)
  ELSE CASE i % 7 = 0 -> JsonList(<<>>)
         [] i % 7 = 1 -> JsonList(<<10>>)
         [] i % 7 = 2 -> JsonList(<<10, 10>>)
         [] i % 7 = 3 -> JsonDict
         [] i % 7 = 4 -> JsonList(<<10, 12, 11>>)
         [] i % 7 = 5 -> JsonList(<<20, 19>>)
         [] OTHER -> JsonEmptyDict

RankInit ==
  /\ cal = [d \in Days |-> "closed"]
  /\ tz = 0
  /\ SchedStart(0, Universe(ChunkSize))
  /\ PollOff
  /\ gpc = <<>>
  /\ retries = <<>>
  /\ requests = <<>>
  /\ timeouts = <<>>
  /\ last = <<>>
  /\ \E m \in Goods, pattern \in Patterns :
       result = [i \in 1 .. ChunkSize |-> GatheredFor(i, m, pattern)]
  /\ rpc = "scoring"
  /\ idx = 0
  /\ momentum_quality = {}
  /\ BatchOff
  /\ ExecOff
  /\ EnterOff
  /\ LateOff

RankNext ==
  \/ Score
  \/ ScoreEnd

RankSpec == RankInit /\ [][RankNext]_vars

(***************************************************************************)
(* The diff and the execution step of rebalance.                           *)
(***************************************************************************)
\* The symbol names that occur; "a" and "A" differ by case only.
Names == {"A", "B", "C", "a"}

\* Python's set difference a - b.
SymmetricDifference(a, b) == {x \in a \cup b : ~(x \in a /\ x \in b)}
KeepAll(a, b) == a
SetDifference(a, b) == {x \in a : x \notin b}

\* run.py:162
NamesToBuy(target, held) == SetDifference(target, held)
\* run.py:163
NamesToSell(target, held) == SetDifference(held, target)

\* run.py:158, broker.py:314-319  broker.positions raises IOError on a status code
\* other than 200.
ExecPositionsRaise ==
  /\ xpc = "positions"
  /\ xpc' = "failed"
  /\ UNCHANGED <<top_ranked_momentum, position_names, names_to_buy, names_to_sell,
                 calls, placed>>
  /\ UNCHANGED execFrame

\* run.py:158-163  the broker reports its positions and the diff is computed.
ExecDiff ==
  /\ xpc = "positions"
  /\ names_to_buy' = NamesToBuy(top_ranked_momentum, position_names)
  /\ names_to_sell' = NamesToSell(top_ranked_momentum, position_names)
  /\ xpc' = "exits"
  /\ UNCHANGED <<top_ranked_momentum, position_names, calls, placed>>
  /\ UNCHANGED execFrame

\* run.py:166-168  the first pass of the sell loop calls position.exit_(broker, name).
\* position.exit_ is the click command of position.py:177-181, a function of the
\* command line: called with (broker, name) it takes broker for its argument list
\* and raises TypeError before its body runs; no order is placed.
ExecExit(name) ==
  /\ xpc = "exits"
  /\ name \in names_to_sell
  /\ calls' = Append(calls, [fn |-> "exit_", name |-> name, outcome |-> "TypeError"])
  /\ xpc' = "raised"
  /\ UNCHANGED <<top_ranked_momentum, position_names, names_to_buy, names_to_sell, placed>>
  /\ UNCHANGED execFrame

\* run.py:166  the sell loop has nothing to visit.
ExecExitsEnd ==
  /\ xpc = "exits"
  /\ names_to_sell = {}
  /\ xpc' = "entries"
  /\ UNCHANGED <<top_ranked_momentum, position_names, names_to_buy, names_to_sell,
                 calls, placed>>
  /\ UNCHANGED execFrame

\* run.py:171-173  the first pass of the buy loop evaluates position.enter_: the
\* module clt.position has no attribute enter_ (its entry is the click command
\* enter of position.py:106-112), so AttributeError is raised; no order is placed.
ExecEnter(name) ==
  /\ xpc = "entries"
  /\ name \in names_to_buy
  /\ calls' = Append(calls, [fn |-> "enter_", name |-> name, outcome |-> "AttributeError"])
  /\ xpc' = "raised"
  /\ UNCHANGED <<top_ranked_momentum, position_names, names_to_buy, names_to_sell, placed>>
  /\ UNCHANGED execFrame

\* run.py:171  the buy loop has nothing to visit: rebalance returns.
ExecEnd ==
  /\ xpc = "entries"
  /\ names_to_buy = {}
  /\ xpc' = "done"
  /\ UNCHANGED <<top_ranked_momentum, position_names, names_to_buy, names_to_sell,
                 calls, placed>>
  /\ UNCHANGED execFrame

\* The ranking has produced any target set and the broker holds any positions.
ExecInit ==
  /\ cal = [d \in Days |-> "closed"]
  /\ tz = 0
  /\ SchedStart(0, <<>>)
  /\ PollOff
  /\ PriceOff
  /\ ScoreOff
  /\ BatchOff
  /\ top_ranked_momentum \in SUBSET Names
  /\ position_names \in SUBSET Names
  /\ names_to_buy = {}
  /\ names_to_sell = {}
  /\ calls = <<>>
  /\ placed = {}
  /\ xpc = "positions"
  /\ EnterOff
  /\ LateOff

ExecNext ==
  \/ ExecPositionsRaise
  \/ ExecDiff
  \/ \E name \in Names : ExecExit(name)
  \/ ExecExitsEnd
  \/ \E name \in Names : ExecEnter(name)
  \/ ExecEnd

ExecSpec == ExecInit /\ [][ExecNext]_vars

(***************************************************************************)
(* The entry command, enter of clt/position.py.  Prices and the account    *)
(* base are whole dollars, a stop price is in cents.                       *)
(***************************************************************************)
\* str.lower() on the names of the model
Lower(n) == CASE n = "A" -> "a" [] n = "B" -> "b" [] n = "C" -> "c" [] OTHER -> n

\* position.py:125, broker.py:23-27  name in positions, by Position.__eq__
HeldExact(n, positions) == n \in positions
HeldAlways(n, positions) == TRUE
Held(n, positions) == \E p \in positions : Lower(p) = Lower(n)

\* position.py:129-132  quote.price >= (allocation / 100) * account_base
TooBigStrict(price, allocation, account_base) == price * 100 > allocation * account_base
TooBigNever(price, allocation, account_base) == FALSE
TooBig(price, allocation, account_base) == price * 100 >= allocation * account_base

\* position.py:130  (allocation / 100) * account_base is computed in IEEE doubles:
\* for these pairs the result is the double just below the exact product
\* (0.29 * 100 = 28.999999999999996); for the other pairs of the model it is exact.
RoundsBelow(allocation, account_base) ==
  <<allocation, account_base>> \in {<<29, 100>>, <<29, 100000>>}

\* position.py:136  int(allocation_size / quote.price): the integer part of the
\* quotient of the doubles, one less than the exact quotient when allocation_size
\* is just below an exact multiple of the price.
AllocationQuantityExact(price, allocation, account_base) ==
  (allocation * account_base) \div (100 * price)
AllocationQuantity(price, allocation, account_base) ==
  IF RoundsBelow(allocation, account_base) /\ (allocation * account_base) % (100 * price) = 0
  THEN (allocation * account_base) \div (100 * price) - 1
  ELSE (allocation * account_base) \div (100 * price)

\* position.py:140, 169  quote.price * ((100 - stop_loss) / 100), in cents
StopPrice(price, stop_loss) == price * (100 - stop_loss)

NoOrder == [status |-> "none", executed_quantity |-> 0, avg_fill_price |-> 0]

\* broker.py:236-270  _place_order: the broker has one more order.
PlaceOrder(b, o) == [b EXCEPT !.orders = Append(@, o)]

\* position.py:119-155  the three broker reads and the checks on them.
EnterGather ==
  /\ epc = "gather"
  /\ epc' = IF Held(args.name, broker.positions) THEN "held"
            ELSE IF TooBig(broker.price, args.allocation, broker.account_base)
              THEN "too_big"
            ELSE IF args.stop_loss # 0
                    /\ StopPrice(broker.price, args.stop_loss) >= broker.price * 100
              THEN "bad_stop"
            ELSE IF args.preview THEN "confirm"
            ELSE "buy"
  /\ UNCHANGED <<args, broker, entry_order>>
  /\ UNCHANGED enterFrame

\* position.py:155  click.confirm('Continue?', abort=True): a refusal raises Abort.
EnterConfirm ==
  /\ epc = "confirm"
  /\ epc' = IF args.confirm THEN "buy" ELSE "aborted"
  /\ UNCHANGED <<args, broker, entry_order>>
  /\ UNCHANGED enterFrame

\* position.py:158  place_market_buy(name, allocation_quantity)
EnterBuy ==
  /\ epc = "buy"
  /\ broker' = PlaceOrder(broker,
                 [side |-> "buy", type |-> "market", name |-> args.name,
                  quantity |-> AllocationQuantity(broker.price, args.allocation,
                                                  broker.account_base),
                  stop |-> 0])
  /\ epc' = "wait"
  /\ UNCHANGED <<args, entry_order>>
  /\ UNCHANGED enterFrame

\* position.py:161  order.status != br.OrderStatus.FILLED
NotFilledNever(status) == FALSE
NotFilled(status) == status # "filled"

\* position.py:160-165  the poll loop yields the market order in a terminal status
\* with the quantity and the fill price the broker reports; a filled order is now
\* a position.
EnterWait(status, executed, fill) ==
  /\ epc = "wait"
  /\ entry_order' = [status |-> status, executed_quantity |-> executed,
                     avg_fill_price |-> fill]
  /\ broker' = IF status = "filled"
               THEN [broker EXCEPT !.positions = @ \cup {args.name}]
               ELSE broker
  /\ epc' = IF NotFilled(status) THEN "not_filled"
            ELSE IF args.stop_loss # 0 THEN "stop"
            ELSE "done"
  /\ UNCHANGED args
  /\ UNCHANGED enterFrame

\* position.py:167-174  place_stop_loss(name, entry_order.executed_quantity, round(stop_price, 2))
EnterStop ==
  /\ epc = "stop"
  /\ broker' = PlaceOrder(broker,
                 [side |-> "sell", type |-> "stop", name |-> args.name,
                  quantity |-> entry_order.executed_quantity,
                  stop |-> StopPrice(broker.price, args.stop_loss)])
  /\ epc' = "done"
  /\ UNCHANGED <<args, entry_order>>
  /\ UNCHANGED enterFrame

\* broker.py:262-269, 289-294, 314-319, 391-396  a broker call answers with a status
\* code other than 200: IOError, which enter does not catch; nothing is placed.
EnterBrokerRaise ==
  /\ epc \in {"gather", "buy", "wait", "stop"}
  /\ epc' = "raised"
  /\ UNCHANGED <<args, broker, entry_order>>
  /\ UNCHANGED enterFrame

\* The arguments and the broker's answers that are tried.
EnterNames == {"a", "C"}
Allocations == {4, 29, 50}
StopLosses == {0, 10}
Prices == {1, 4, 10, 38, 60}
AccountBases == {100, 250, 100000}

EnterStart ==
  /\ cal = [d \in Days |-> "closed"]
  /\ tz = 0
  /\ SchedStart(0, <<>>)
  /\ PollOff
  /\ PriceOff
  /\ ScoreOff
  /\ BatchOff
  /\ ExecOff
  /\ FetchOff
  /\ WatchOff
  /\ args \in [name : EnterNames, allocation : Allocations, stop_loss : StopLosses,
              preview : BOOLEAN, confirm : BOOLEAN]
  /\ broker \in [positions : SUBSET {"A", "B"}, price : Prices,
                account_base : AccountBases, orders : {<<>>}]
  /\ entry_order = NoOrder
  /\ epc = "gather"

\* The fill is at the quote or a dollar above it.
FillPrices == IF epc = "wait" THEN {broker.price, broker.price + 1} ELSE {}

EnterNext ==
  \/ EnterGather
  \/ EnterConfirm
  \/ EnterBuy
  \/ \E status \in {"filled", "rejected", "expired", "error", "canceled"},
        executed \in {0, 1, 2}, fill \in FillPrices :
       EnterWait(status, executed, fill)
  \/ EnterStop
  \/ EnterBrokerRaise

EnterInit ==
  /\ EnterStart
  /\ ExitOff

EnterSpec == EnterInit /\ [][EnterNext]_vars

(***************************************************************************)
(* The exit command, exit_ of clt/position.py.                             *)
(***************************************************************************)
\* position.py:198-202  the orders to cancel: status OPEN and the name of the call,
\* names compared lower-cased.
AllOpenOrders(n, os) == {o \in DOMAIN os : os[o].status = "open"}
OpenOrders(n, os) ==
  {o \in DOMAIN os : os[o].status = "open" /\ Lower(os[o].name) = Lower(n)}

\* position.py:210  [x for x in positions if x == name][0]
PositionOf(n, positions) == CHOOSE q \in DOMAIN positions : Lower(q) = Lower(n)

\* position.py:204-208  the gather of the cancellations returns when every one of
\* them has completed.
AllCancelledNever(c) == TRUE
AllCancelled(c) == c.completed = c.issued

\* position.py:204-208  what exit_ does when a cancellation raises: gather raises,
\* and so does exit_.
IgnoreFailedCancel(c) == "sell"
OnFailedCancel(c) == "raised"

\* position.py:188-202  the two broker reads and the held check.
ExitGather ==
  /\ kpc = "gather"
  /\ IF Held(exit_name, DOMAIN book.positions)
     THEN /\ cancels' = [cancels EXCEPT !.issued = OpenOrders(exit_name, book.orders)]
          /\ kpc' = "cancel"
     ELSE /\ kpc' = "not_held"
          /\ UNCHANGED cancels
  /\ UNCHANGED <<exit_name, book>>
  /\ UNCHANGED exitFrame

\* broker.py:446-458  one of the cancellations in flight completes.
ExitCancel(o) ==
  /\ kpc = "cancel"
  /\ o \in cancels.issued \ (cancels.completed \cup cancels.failed)
  /\ cancels' = [cancels EXCEPT !.completed = @ \cup {o}]
  /\ book' = [book EXCEPT !.orders[o].status = "canceled"]
  /\ UNCHANGED <<exit_name, kpc>>
  /\ UNCHANGED exitFrame

\* broker.py:453-457  one of the cancellations in flight is answered with a status
\* code other than 200: cancel_order raises IOError.
ExitCancelRaise(o) ==
  /\ kpc = "cancel"
  /\ o \in cancels.issued \ (cancels.completed \cup cancels.failed)
  /\ cancels' = [cancels EXCEPT !.failed = @ \cup {o}]
  /\ kpc' = OnFailedCancel(cancels)
  /\ UNCHANGED <<exit_name, book>>
  /\ UNCHANGED exitFrame

\* position.py:204-208  the gather of the cancellations returns.
ExitCancelled ==
  /\ kpc = "cancel"
  /\ AllCancelled(cancels)
  /\ kpc' = "sell"
  /\ UNCHANGED <<exit_name, book, cancels>>
  /\ UNCHANGED exitFrame

\* position.py:210-214  place_market_sell(name, pos.size)
ExitSell ==
  /\ kpc = "sell"
  /\ book' = [book EXCEPT !.sells =
                Append(@, [name |-> exit_name,
                           quantity |-> book.positions[PositionOf(exit_name,
                                                                  book.positions)]])]
  /\ kpc' = "done"
  /\ UNCHANGED <<exit_name, cancels>>
  /\ UNCHANGED exitFrame

\* broker.py:262-269, 314-319, 418-422  a broker read or the sell placement is
\* answered with a status code other than 200: IOError, which exit_ does not catch.
ExitBrokerRaise ==
  /\ kpc \in {"gather", "sell"}
  /\ kpc' = "raised"
  /\ UNCHANGED <<exit_name, book, cancels>>
  /\ UNCHANGED exitFrame

\* The positions and the sizes that are tried.
Holdings ==
  UNION {[h -> {5, 7}] : h \in SUBSET {"A", "B"}}

ExitStart ==
  /\ cal = [d \in Days |-> "closed"]
  /\ tz = 0
  /\ SchedStart(0, <<>>)
  /\ PollOff
  /\ PriceOff
  /\ ScoreOff
  /\ BatchOff
  /\ ExecOff
  /\ FetchOff
  /\ WatchOff
  /\ exit_name \in EnterNames
  /\ book \in [positions : Holdings,
              orders : [OrderIds -> [name : {"A", "a", "B"},
                                     status : {"open", "pending", "filled"}]],
              sells : {<<>>}]
  /\ cancels = [issued |-> {}, completed |-> {}, failed |-> {}]
  /\ kpc = "gather"

ExitInit ==
  /\ ExitStart
  /\ EnterOff

ExitNext ==
  \/ ExitGather
  \/ \E o \in OrderIds : ExitCancel(o)
  \/ \E o \in OrderIds : ExitCancelRaise(o)
  \/ ExitCancelled
  \/ ExitSell
  \/ ExitBrokerRaise

ExitSpec == ExitInit /\ [][ExitNext]_vars

(***************************************************************************)
(* The two commands side by side: one run of enter or one run of exit_.    *)
(***************************************************************************)
CommandInit ==
  \/ EnterInit
  \/ ExitInit

CommandNext ==
  \/ EnterNext
  \/ ExitNext

CommandSpec == CommandInit /\ [][CommandNext]_vars

(***************************************************************************)
(* The universe builder (clt/run.py fetch_symbols) as run calls it from    *)
(* the loop (run.py:212-215).  The symbols of the market come in kinds: a  *)
(* kind fixes the listing entry and the daily close and volume of its      *)
(* symbols, and the market holds a number of symbols of each kind.  Lists  *)
(* of symbols are kept as sequences of [kind, n]: n symbols of that kind.  *)
(***************************************************************************)
\* run.py:87  the slice [-4000:]
UniverseLimit == 4000

Kinds == {"a", "b", "c", "d", "e", "f"}

\* tiingo_client.list_stock_tickers(): the entry of a symbol of each kind.
Listing ==
  [a |-> [exchange |-> "NYSE", assetType |-> "Stock", endDate |-> "today",
          plain |-> TRUE],
   b |-> [exchange |-> "NASDAQ", assetType |-> "stock", endDate |-> "last_session",
          plain |-> TRUE],
   c |-> [exchange |-> "AMEX", assetType |-> "Stock", endDate |-> "today",
          plain |-> TRUE],
   d |-> [exchange |-> "OTC", assetType |-> "Stock", endDate |-> "today",
          plain |-> TRUE],
   e |-> [exchange |-> "NYSE", assetType |-> "ETF", endDate |-> "today",
          plain |-> TRUE],
   f |-> [exchange |-> "NYSE", assetType |-> "Stock", endDate |-> "today",
          plain |-> TRUE]]

\* The daily close (dollars) and volume of a symbol of each kind.
DailyPrice ==
  [a |-> [close |-> 50, volume |-> 10],
   b |-> [close |-> 2000, volume |-> 30],
   c |-> [close |-> 50, volume |-> 30],
   d |-> [close |-> 10, volume |-> 40],
   e |-> [close |-> 10, volume |-> 50],
   f |-> [close |-> 3000, volume |-> 60]]

\* run.py:59-63  the filter on the listing
Desirable(x) ==
  /\ x.exchange \in {"NYSE", "NASDAQ", "AMEX"}
  /\ x.assetType \in {"Stock", "stock", "STOCK"}
  /\ x.endDate \in {"today", "last_session"}
  /\ x.plain

\* run.py:56-64  symbols: the tickers that pass the filter
Tickers(count) == {k \in Kinds : count[k] > 0 /\ Desirable(Listing[k])}

\* run.py:72-76  the items of the response whose ticker is in symbols, in the
\* order of the response
RECURSIVE Priced(_, _)
Priced(order, count) ==
  IF order = <<>> THEN <<>>
  ELSE IF Head(order) \in Tickers(count)
       THEN <<[kind |-> Head(order), n |-> count[Head(order)]]>>
              \o Priced(Tail(order), count)
       ELSE Priced(Tail(order), count)

\* run.py:80  max_price = account_base * allocation
MaxPrice(account_base, allocation) == account_base * allocation

\* run.py:84-86  data["close"] <= max_price
AffordableAll(s, max_price) == s
Affordable(s, max_price) ==
  SelectSeq(s, LAMBDA e : DailyPrice[e.kind].close <= max_price)

\* run.py:87  sorted(..., key=volume): ascending, stable
RECURSIVE InsertByVolume(_, _)
InsertByVolume(e, s) ==
  IF s = <<>> THEN <<e>>
  ELSE IF DailyPrice[Head(s).kind].volume <= DailyPrice[e.kind].volume
       THEN <<Head(s)>> \o InsertByVolume(e, Tail(s))
       ELSE <<e>> \o s

RECURSIVE SortedByVolume(_)
SortedByVolume(s) ==
  IF s = <<>> THEN <<>>
  ELSE InsertByVolume(s[Len(s)], SortedByVolume(SubSeq(s, 1, Len(s) - 1)))

\* The first n symbols of a list.
RECURSIVE TakeFirst(_, _)
TakeFirst(s, n) ==
  IF s = <<>> \/ n = 0 THEN <<>>
  ELSE LET e == Head(s)
           k == IF e.n < n THEN e.n ELSE n
       IN  <<[kind |-> e.kind, n |-> k]>> \o TakeFirst(Tail(s), n - k)

\* run.py:87  [-n:]  the last n symbols of a list
RECURSIVE TakeLast(_, _)
TakeLast(s, n) ==
  IF s = <<>> \/ n = 0 THEN <<>>
  ELSE LET e == s[Len(s)]
           k == IF e.n < n THEN e.n ELSE n
       IN  TakeLast(SubSeq(s, 1, Len(s) - 1), n - k) \o <<[kind |-> e.kind, n |-> k]>>

\* run.py:78-88  what fetch_symbols returns
HighVolumeFiltered(prices, account_base, allocation) ==
  TakeLast(SortedByVolume(Affordable(prices, MaxPrice(account_base, allocation))),
           UniverseLimit)

\* run.py:214  the assignment to symbols is not reached when the await raises
DefaultUniverse(cached) == <<>>
CachedAfterRaise(cached) == cached

\* run.py:56-64  the listing is read and filtered
FetchTickers ==
  /\ fpc = "tickers"
  /\ fpc' = "prices"
  /\ UNCHANGED <<market, daily_prices>>
  /\ UNCHANGED schedVars
  /\ UNCHANGED fetchFrame

\* run.py:66-76  the daily prices are read
FetchPrices ==
  /\ fpc = "prices"
  /\ daily_prices' = Priced(market.order, market.count)
  /\ fpc' = "balance"
  /\ UNCHANGED market
  /\ UNCHANGED schedVars
  /\ UNCHANGED fetchFrame

\* run.py:78-88, 214-215  the balance is read, the list is filtered, sorted, cut
\* and returned; run caches it and records the day.
FetchReturn ==
  /\ fpc = "balance"
  /\ pc = "refreshing"
  /\ symbols' = HighVolumeFiltered(daily_prices, market.account_base, market.allocation)
  /\ last_symbol_refresh' = today
  /\ emptyOn' = IF symbols' = <<>> THEN emptyOn \cup {today} ELSE emptyOn
  /\ pc' = "loop"
  /\ fpc' = "returned"
  /\ UNCHANGED <<market, daily_prices>>
  /\ UNCHANGED <<cal, tz, now, today, last_rebalance, rebalCount, refreshCount>>
  /\ UNCHANGED fetchFrame

\* run.py:58, 67-75, 78; broker.py:289-294  the listing or the price request fails
\* (no connection, a timeout, a body that is not a list of items) or the balance is
\* answered with a status code other than 200: nothing in fetch_symbols or in run
\* catches the error.
FetchRaise ==
  /\ fpc \in {"tickers", "prices", "balance"}
  /\ pc = "refreshing"
  /\ fpc' = "raised"
  /\ pc' = "stopped"
  /\ symbols' = CachedAfterRaise(symbols)
  /\ UNCHANGED <<market, daily_prices>>
  /\ UNCHANGED <<cal, tz, now, today, last_symbol_refresh, last_rebalance, rebalCount,
                 refreshCount, emptyOn>>
  /\ UNCHANGED fetchFrame

Counts == {0, 1, UniverseLimit}
FetchBases == {100, 1000}
ResponseOrders == {<<"a", "b", "c", "d", "e", "f">>, <<"f", "e", "d", "c", "b", "a">>}
Caches == {<<>>, <<[kind |-> "a", n |-> 1]>>}

\* A tick of day 1 inside the pre-open window has called fetch_symbols with
\* portfolio_size as the allocation (run.py:212-214); the cache is of day 0.
FetchInit ==
  /\ cal = [d \in Days |-> "full"]
  /\ tz = 0
  /\ pc = "refreshing"
  /\ now = MinutesPerDay + OpenMinute - 5
  /\ today = 1
  /\ symbols \in Caches
  /\ last_symbol_refresh = 0
  /\ last_rebalance = 0
  /\ rebalCount = [d \in Dates |-> 0]
  /\ refreshCount = [d \in Dates |-> IF d \in {0, 1} THEN 1 ELSE 0]
  /\ emptyOn = IF symbols = <<>> THEN {0} ELSE {}
  /\ PollOff
  /\ PriceOff
  /\ ScoreOff
  /\ BatchOff
  /\ ExecOff
  /\ EnterOff
  /\ ExitOff
  /\ WatchOff
  /\ market \in [count : [Kinds -> Counts], order : ResponseOrders,
                account_base : FetchBases, allocation : {portfolio_size}]
  /\ daily_prices = <<>>
  /\ fpc = "tickers"

FetchNext ==
  \/ FetchTickers
  \/ FetchPrices
  \/ FetchReturn
  \/ FetchRaise

FetchSpec == FetchInit /\ [][FetchNext]_vars

(***************************************************************************)
(* The watchlist commands add, remove and clear of clt/watch.py over the   *)
(* list context.watchlist.                                                 *)
(***************************************************************************)
\* str.upper() on the names of the model.
Upper(n) == CASE n = "a" -> "A" [] n = "b" -> "B" [] n = "c" -> "C" [] OTHER -> n

\* context.py:26-29  WatchlistItem.__eq__ with a string
ItemEqExact(item, value) == item.name = value
ItemEq(item, value) == Lower(item.name) = Lower(value)

\* watch.py:22  name in watchlist
InWatchlist(name, w) == \E i \in 1 .. Len(w) : ItemEq(w[i], name)

\* watch.py:38-40  the last item whose lower-cased name is the lower-cased argument,
\* 0 when there is none
ToBeRemoved(name, w) ==
  IF \E i \in 1 .. Len(w) : Lower(w[i].name) = Lower(name)
  THEN CHOOSE i \in 1 .. Len(w) :
         /\ Lower(w[i].name) = Lower(name)
         /\ \A j \in (i + 1) .. Len(w) : Lower(w[j].name) # Lower(name)
  ELSE 0

\* watch.py:43  watchlist.remove(to_be_removed): the first item that is the object
\* or equals it; an item equals no other item (context.py:29), so it is the object.
RemoveAt(w, i) == SubSeq(w, 1, i - 1) \o SubSeq(w, i + 1, Len(w))

\* watch.py:17-25
WatchAdd(name, notes) ==
  /\ command # <<>>
  /\ command' = [op |-> "add", name |-> name, notes |-> notes]
  /\ watchlist' = IF ~InWatchlist(name, watchlist)
                  THEN Append(watchlist, [name |-> Upper(name), notes |-> notes])
                  ELSE watchlist
  /\ UNCHANGED watchFrame

\* watch.py:31-43
WatchRemove(name) ==
  /\ command # <<>>
  /\ command' = [op |-> "remove", name |-> name, notes |-> ""]
  /\ watchlist' = IF ToBeRemoved(name, watchlist) # 0
                  THEN RemoveAt(watchlist, ToBeRemoved(name, watchlist))
                  ELSE watchlist
  /\ UNCHANGED watchFrame

\* watch.py:48-52
WatchClear ==
  /\ command # <<>>
  /\ command' = [op |-> "clear", name |-> "", notes |-> ""]
  /\ watchlist' = <<>>
  /\ UNCHANGED watchFrame

\* The names and notes that are tried, and the lists of the context file: at most
\* two items, no two of the same name without regard to case.
WatchNames == {"A", "a", "B", "b", "c"}
WatchNotes == {"", "x"}
WatchItems == [name : WatchNames, notes : WatchNotes]
Watchlists ==
  {<<>>} \cup {<<x>> : x \in WatchItems}
    \cup {<<x, y>> : <<x, y>> \in {p \in WatchItems \X WatchItems :
                                     Lower(p[1].name) # Lower(p[2].name)}}

WatchInit ==
  /\ cal = [d \in Days |-> "closed"]
  /\ tz = 0
  /\ SchedStart(0, <<>>)
  /\ PollOff
  /\ PriceOff
  /\ ScoreOff
  /\ BatchOff
  /\ ExecOff
  /\ EnterOff
  /\ ExitOff
  /\ FetchOff
  /\ watchlist \in Watchlists
  /\ command = [op |-> "load", name |-> "", notes |-> ""]

WatchNext ==
  \/ \E name \in WatchNames, notes \in WatchNotes : WatchAdd(name, notes)
  \/ \E name \in WatchNames : WatchRemove(name)
  \/ WatchClear

WatchSpec == WatchInit /\ [][WatchNext]_vars

(***************************************************************************)
(* The scheduler polled without a gap: the host's clock is in the rebalance *)
(* zone, the loop starts at local midnight of day 0, every tick is at the  *)
(* instant of the previous one or at the next instant of the grid, and     *)
(* every rebalance and every refresh returns before the next instant.      *)
(***************************************************************************)
NextTickTime(t) ==
  IF \E u \in TickTimes : u > t
  THEN CHOOSE u \in TickTimes : u > t /\ \A w \in TickTimes : w > t => u <= w
  ELSE t

DenseInit ==
  /\ cal \in [Days -> DayKinds]
  /\ tz = ChicagoOffset
  /\ \E r \in FetchResults : SchedStart((MinutesPerDay - ChicagoOffset) % MinutesPerDay, r)
  /\ PollOff
  /\ PriceOff
  /\ RestOff

DenseNext ==
  \/ \E t \in {now, NextTickTime(now)} : Tick(t)
  \/ RebalanceReturn
  \/ \E r \in FetchResults : RefreshReturn(r)

DenseSpec == DenseInit /\ [][DenseNext]_vars

(***************************************************************************)
(* Claims about the scheduler.                                             *)
(***************************************************************************)
\* C1: rebalance is invoked at most once per calendar day, whatever the ticks:
\* no date ever counts a second rebalance invocation.
C1_RebalanceAtMostOncePerDay == \A d \in Dates : rebalCount[d] <= 1

\* A rebalance of today has returned and the loop is about to tick again while the
\* market is open and the hour is still 12 in Chicago.
C1_Witness ==
  /\ pc = "loop"
  /\ is_session(today)
  /\ MarketOpen(now, today)
  /\ ChicagoHour(now) = RebalanceHour
  /\ rebalCount[today] = 1
  /\ last_rebalance = today

\* C2: on every session day polled without a gap, rebalance is invoked exactly once
\* during the session, whatever the session's open and close times: once the
\* session's last minute is reached the day counts one rebalance.
C2_ExactlyOncePerSession ==
  \A d \in Days :
    (is_session(d) /\ pc = "loop" /\ now >= session_last_minute(d)) => rebalCount[d] = 1

\* C3: last_rebalance is monotonically non-decreasing: no step assigns it an earlier
\* date than it holds.
C3_LastRebalanceMonotonic == [][last_rebalance' >= last_rebalance]_vars

\* last_rebalance has been advanced by a rebalance of a later day than the one the
\* loop started on.
C3_Witness ==
  /\ last_rebalance = today
  /\ rebalCount[today] = 1
  /\ \E d \in Dates : d < today /\ refreshCount[d] >= 1

\* C4 as stated: fetch_symbols is invoked at most once per calendar day, whatever the
\* universe builder returns.
C4_RefreshAtMostOncePerDay == \A d \in Dates : refreshCount[d] <= 1

\* C4 as amended: a date counts a second fetch_symbols invocation only if a refresh
\* of that date returned an empty list.
C4_RefreshOnceUnlessEmpty == \A d \in Dates : refreshCount[d] > 1 => d \in emptyOn

\* An in-loop refresh of today (the loop started on an earlier date) returned a
\* non-empty list and the loop is about to tick again inside the pre-open window.
C4_Witness ==
  /\ pc = "loop"
  /\ is_session(today)
  /\ PreOpen(now, today)
  /\ symbols # <<>>
  /\ last_symbol_refresh = today
  /\ refreshCount[today] = 1
  /\ today \notin emptyOn
  /\ \E d \in Dates : d < today /\ refreshCount[d] >= 1

\* C5: rebalance is invoked only on a tick of a session day with
\* first_minute <= now < last_minute; the in-loop refresh only on a tick with now
\* strictly within the 10 minutes before the open; and a tick of a day that is not
\* a session invokes neither and leaves the universe cache, the last-refresh date
\* and the last-rebalance date unchanged.
C5_InvocationWindows ==
  [][ /\ (pc = "loop" /\ pc' = "rebalancing") =>
           /\ is_session(today')
           /\ session_first_minute(today') <= now'
           /\ now' < session_last_minute(today')
      /\ (pc = "loop" /\ pc' = "refreshing") =>
           /\ session_first_minute(today') - PreOpenWindow < now'
           /\ now' < session_first_minute(today')
      /\ (pc = "loop" /\ ~is_session(today')) =>
           /\ pc' = "loop"
           /\ UNCHANGED <<symbols, last_symbol_refresh, last_rebalance,
                          rebalCount, refreshCount>>
    ]_vars

\* A tick has invoked rebalance, after an in-loop refresh on the same day and a
\* closed day before it.
C5_Witness ==
  /\ pc = "rebalancing"
  /\ last_symbol_refresh = today
  /\ \E d \in Days : d < today /\ ~is_session(d) /\ refreshCount[d] >= 1

(***************************************************************************)
(* Claims about the order poll loop.                                       *)
(***************************************************************************)
\* The statuses the claims call terminal and non-terminal.
TerminalStatuses == {"filled", "rejected", "expired", "error", "canceled"}
NonTerminalStatuses ==
  {"open", "pending", "partially_filled", "calculated", "accepted_for_bidding", "held"}

EmittedIds == {emitted[i].id : i \in 1 .. Len(emitted)}

\* The for loop of the current round is past order o.
Visited(o) == ~(ppc = "for" /\ o \in todo)

\* C6: every order id of the initial pending set is emitted exactly once, at the poll
\* round in which its status is first observed terminal; no order is emitted with a
\* non-terminal status; the loop goes on to another poll only with a non-empty
\* pending set and ends only with an empty one, every initial id emitted.
C6_EmitsEachTerminalOnce ==
  /\ \A i, j \in 1 .. Len(emitted) : emitted[i].id = emitted[j].id => i = j
  /\ \A i \in 1 .. Len(emitted) :
       /\ emitted[i].id \in initial_ids
       /\ emitted[i].status \in TerminalStatuses
       /\ emitted[i].round = seenTerminal[emitted[i].id]
  /\ \A o \in initial_ids : (seenTerminal[o] > 0 /\ Visited(o)) => o \in EmittedIds
  /\ pending_order_ids = initial_ids \ EmittedIds
  /\ ppc = "poll" => pending_order_ids # {}
  /\ ppc = "done" => (pending_order_ids = {} /\ EmittedIds = initial_ids)

\* Both orders of a two-order pending set were emitted and the loop has ended.
C6_Witness ==
  /\ ppc = "done"
  /\ Cardinality(initial_ids) >= 2
  /\ Len(emitted) = Cardinality(initial_ids)

\* C7: after each poll round the pending set is the previous pending set (the ids
\* polled) minus exactly the ids polled in a terminal status; an id polled in any
\* other status stays; every OrderStatus value is of one kind or the other.
C7_PendingAfterRound ==
  (polls > 0 /\ todo = {}) =>
    /\ pending_order_ids = {o \in DOMAIN orders : orders[o] \notin TerminalStatuses}
    /\ \A o \in DOMAIN orders :
         /\ orders[o] \in NonTerminalStatuses => o \in pending_order_ids
         /\ orders[o] \in TerminalStatuses => o \notin pending_order_ids
         /\ orders[o] \in TerminalStatuses \cup NonTerminalStatuses

\* A round has ended in which one order was polled canceled and another held.
C7_Witness ==
  /\ ppc = "while"
  /\ polls > 0
  /\ \E o, p \in DOMAIN orders :
       /\ orders[o] = "canceled" /\ o \notin pending_order_ids
       /\ orders[p] = "held" /\ p \in pending_order_ids

\* C8: orders are emitted in the order of the poll rounds in which they resolve: an
\* order first observed terminal in an earlier round is emitted before one first
\* observed terminal in a later round.
C8_EmittedInRoundOrder ==
  \A i, j \in 1 .. Len(emitted) :
    seenTerminal[emitted[i].id] < seenTerminal[emitted[j].id] => i < j

\* Order 1 was filled on the first poll, order 2 rejected on the second: the loop
\* yielded 1 then 2 and ended with an empty pending set.
C8_Witness ==
  /\ ppc = "done"
  /\ pending_order_ids = {}
  /\ emitted = << [id |-> 1, status |-> "filled", round |-> 1],
                  [id |-> 2, status |-> "rejected", round |-> 2] >>

AllSeenTerminal == \A o \in initial_ids : seenTerminal[o] > 0

\* The steps the loop still has to take once every order was reported terminal.
StepsLeft ==
  CASE ppc = "done" -> 0
    [] ppc = "while" -> 1
    [] ppc = "for" -> 2 + Cardinality(todo)
    [] OTHER -> 3 + MaxOrders

\* C9: the loop has no timeout.  After any number of rounds a non-empty pending set
\* leads to another poll; the loop ends only from its while test with an empty
\* pending set, hence only when every order was reported terminal; and once every
\* order was reported terminal it polls no more and ends: it can always take a
\* step and every step brings it nearer to its end.
C9_NoTimeout ==
  /\ [][ /\ (ppc = "while" /\ pending_order_ids # {}) => ppc' = "poll"
         /\ (ppc # "done" /\ ppc' = "done") => (ppc = "while" /\ pending_order_ids = {})
         /\ AllSeenTerminal => StepsLeft' < StepsLeft
       ]_vars
  /\ [](ppc = "done" => AllSeenTerminal)
  /\ []((AllSeenTerminal /\ ppc # "done") => ENABLED PollNext)

\* The round counter is at its cap, an order is still not terminal, and the loop is
\* about to poll again.
C9_Witness ==
  /\ ppc = "poll"
  /\ polls = MaxPolls
  /\ \E o \in pending_order_ids : seenTerminal[o] = 0

(***************************************************************************)
(* Claims about the price fetcher.                                         *)
(***************************************************************************)
TimeoutsOf(s) == timeouts[s][1] + timeouts[s][2]

\* C10: for one symbol get_price issues at most 3 requests; connect and read
\* timeouts draw on the same budget of 3; after the third timeout it issues no
\* further request and returns the empty list without raising; a request answered
\* before the budget is exhausted returns that answer, no further request issued.
C10_RetryBudget ==
  \A s \in PriceSymbols :
    /\ requests[s] <= 3
    /\ TimeoutsOf(s) <= 3
    /\ gpc[s] # "idle" => retries[s] = 3 - TimeoutsOf(s)
    /\ TimeoutsOf(s) = 3 =>
         /\ requests[s] = 3
         /\ gpc[s] \in {"loop", "done"}
         /\ gpc[s] = "done" => result[s] = JsonList(<<>>)
    /\ (gpc[s] = "done" /\ last[s].outcome = "response") =>
         /\ result[s] = last[s].body
         /\ requests[s] = TimeoutsOf(s) + 1
    /\ gpc[s] = "loop" => requests[s] = TimeoutsOf(s)

\* One symbol returned the empty list after a connect timeout and two read timeouts
\* while the other returned the answer to its second request.
C10_Witness ==
  \E s, u \in PriceSymbols :
    /\ gpc[s] = "done" /\ result[s] = JsonList(<<>>)
    /\ timeouts[s] = <<1, 2>> /\ requests[s] = 3
    /\ gpc[u] = "done" /\ last[u].outcome = "response" /\ result[u] = JsonList(<<10, 11>>)
    /\ requests[u] = 2

\* The symbols of the candidate set.
Candidates == {e[1] : e \in momentum_quality}

\* The scoring loop is past the entry of symbol s.
Scored(s) ==
  /\ rpc \in {"scoring", "ranked"}
  /\ \E i \in 1 .. idx : PriceOrder[i] = s

\* C11: a 429 answer makes get_price return the empty object for the symbol at once:
\* the retry counter keeps the value it had, no further request is issued for the
\* symbol, nothing is raised (neither by get_price nor by the scoring of the empty
\* object), and the symbol never enters the candidate set.
C11_RateLimitReturnsEmpty ==
  /\ [](\A s \in PriceSymbols :
          last[s].outcome = "too_many_requests" =>
            /\ gpc[s] = "done"
            /\ result[s] = JsonEmptyDict
            /\ requests[s] = TimeoutsOf(s) + 1
            /\ retries[s] = InitialRetries - TimeoutsOf(s)
            /\ s \notin Candidates)
  /\ [][\A s \in PriceSymbols :
          last[s].outcome = "too_many_requests" =>
            /\ requests'[s] = requests[s]
            /\ retries'[s] = retries[s]
            /\ result'[s] = result[s]
            /\ gpc'[s] = gpc[s]]_vars
  /\ [](rpc = "raised" => \E s \in PriceSymbols : gpc[s] = "raised")

\* AAA was answered 429 on its second request, BBB got its bars; the scoring loop
\* has passed both and only BBB is a candidate.
C11_Witness ==
  /\ rpc = "ranked"
  /\ last["AAA"].outcome = "too_many_requests"
  /\ requests["AAA"] = 2
  /\ retries["AAA"] = 2
  /\ Scored("AAA")
  /\ Candidates = {"BBB"}

\* The ways a request can fail.
Failures == {"too_many_requests", "connect_timeout", "read_timeout", "error"}

\* C12: a failed price fetch of one symbol, whatever the kind of failure, never
\* aborts the batch: the fetch of the symbol raises nothing and the rebalance does
\* not end by a raise before scoring.
C12_FailedFetchNeverAborts ==
  /\ \A s \in PriceSymbols : last[s].outcome \in Failures => gpc[s] # "raised"
  /\ rpc # "raised"

(***************************************************************************)
(* Claims about the chunked fetching.                                      *)
(***************************************************************************)
\* The number of fetches started so far for symbol s.
FetchCount(s) ==
  Cardinality({<<k, j>> \in (1 .. chunk) \X (1 .. ChunkSize) :
                 j <= Len(chunked_tasks[k]) /\ chunked_tasks[k][j] = s})

\* C13: at most 100 price fetches are in flight at any time, and between the return
\* of one chunk's fetches and the start of the next chunk's there is one pause: a
\* chunk is started only with every fetch of the chunks before it returned and one
\* sleep completed for each of them.
C13_ChunkedWithPause ==
  /\ [](inflight <= 100)
  /\ [](bpc = "gather" => pauses = chunk - 1)
  /\ [][chunk' # chunk => (inflight = 0 /\ pauses = chunk /\ chunk' = chunk + 1)]_vars
  /\ [][pauses' # pauses => (bpc = "sleep" /\ inflight = 0 /\ pauses' = chunk)]_vars

\* The second chunk has just been started, its 100 fetches in flight, after one pause.
C13_Witness ==
  /\ bpc = "gather"
  /\ chunk = 2
  /\ inflight = 100
  /\ pauses = 1

\* C14: the chunks are a partition of the universe, whatever its size: when the
\* loop over the chunks is over, every symbol of the universe was fetched exactly
\* once.
C14_EverySymbolFetchedOnce ==
  bpc = "done" => \A i \in 1 .. Len(symbols) : FetchCount(symbols[i]) = 1

(***************************************************************************)
(* Claims about the diff and the execution step.                           *)
(***************************************************************************)
\* The diff has been computed.
Diffed == xpc \in {"exits", "entries", "done", "raised"}

\* C15: the portfolio diff is the pair of plain set differences over the names:
\* a name is bought iff it is in the target set and not held, sold iff it is held
\* and not in the target set, names compared as they are written; held {A, B} and
\* target {B, C} give buy {C} and sell {A}.
C15_DiffIsSetDifference ==
  Diffed =>
    /\ \A x \in Names :
         /\ x \in names_to_buy <=> (x \in top_ranked_momentum /\ x \notin position_names)
         /\ x \in names_to_sell <=> (x \in position_names /\ x \notin top_ranked_momentum)
    /\ names_to_buy \cup names_to_sell \subseteq Names
    /\ (position_names = {"A", "B"} /\ top_ranked_momentum = {"B", "C"}) =>
         (names_to_buy = {"C"} /\ names_to_sell = {"A"})

\* The diff of held {A, B} and target {B, C} has been computed.
C15_Witness ==
  /\ Diffed
  /\ position_names = {"A", "B"}
  /\ top_ranked_momentum = {"B", "C"}
  /\ names_to_buy = {"C"}
  /\ names_to_sell = {"A"}

\* C16: the buy set and the sell set of a rebalance are disjoint.
C16_BuySellDisjoint == names_to_buy \cap names_to_sell = {}

\* A diff with names to buy, names to sell and names that stay.
C16_Witness ==
  /\ Diffed
  /\ names_to_buy # {}
  /\ names_to_sell # {}
  /\ top_ranked_momentum \cap position_names # {}

\* The names whose call of fn has returned.
Returned(fn) ==
  {calls[i].name : i \in {j \in 1 .. Len(calls) : calls[j].fn = fn /\ calls[j].outcome = "returned"}}

\* C17: within one rebalance every exit of a sell-set name is issued and awaited
\* before the first entry is started, one call at a time: the execution step is past
\* its sell loop only with the exit of every sell-set name returned, and every call
\* made before the latest one has returned.
C17_ExitsBeforeEntries ==
  /\ xpc \in {"entries", "done", "raised"} => Returned("exit_") = names_to_sell
  /\ \A i \in 1 .. Len(calls) : i < Len(calls) => calls[i].outcome = "returned"
  /\ \A i, j \in 1 .. Len(calls) :
       (calls[i].fn = "enter_" /\ calls[j].fn = "exit_") => j < i

\* C18: a rebalance that reaches the execution step with a non-empty diff places a
\* market sell with the broker for every sell-set name and attempts an entry with
\* the broker for every buy-set name: when the step is over, each sell-set name has
\* a sell order placed and each buy-set name an entry that ran.
C18_ExecutionPlacesOrders ==
  xpc \in {"done", "raised"} =>
    /\ \A name \in names_to_sell : [side |-> "sell", name |-> name] \in placed
    /\ \A name \in names_to_buy : name \in Returned("enter_")

(***************************************************************************)
(* Claims about the entry command.                                         *)
(***************************************************************************)
\* (allocation / 100) * account_base, in cents
AllocationSize == args.allocation * broker.account_base

\* The symbol was held when enter read the positions: a position of its name that
\* is not the fill of enter's own market buy.
HeldAtEntry ==
  /\ \E p \in broker.positions : Lower(p) = Lower(args.name)
  /\ entry_order.status # "filled"

\* The three cases in which enter is to place nothing.
Rejected ==
  \/ HeldAtEntry
  \/ broker.price * 100 > AllocationSize
  \/ (args.preview /\ ~args.confirm)

\* C19: enter places no order, market buy or stop, when the symbol is already held
\* (names compared without regard to case), when the quote price exceeds the
\* allocation size, or when preview is on and the user declines: in each case the
\* broker's orders and positions stay as they were.
C19_RejectedEntryPlacesNothing ==
  /\ [](Rejected => broker.orders = <<>>)
  /\ [][Rejected => broker' = broker]_vars

\* enter a was run while the broker holds A, with a quote the allocation affords and
\* no preview: it has returned at the held check and the broker has no order.
C19_Witness ==
  /\ epc = "held"
  /\ args.name = "a"
  /\ "A" \in broker.positions
  /\ broker.price * 100 < AllocationSize
  /\ ~args.preview
  /\ broker.orders = <<>>

\* C20: enter rejects on price exactly when the quote price is strictly greater than
\* the allocation size: for a symbol not held and no preview, a rejection on price
\* comes only with a price above the allocation size, and a price equal to it is
\* followed by a market buy of 1 share.
C20_RejectsOnlyAbove ==
  (~HeldAtEntry /\ ~args.preview) =>
    /\ epc = "too_big" <=> (epc # "gather" /\ epc # "raised"
                            /\ broker.price * 100 > AllocationSize)
    /\ (broker.price * 100 = AllocationSize /\ epc \in {"wait", "done", "not_filled"}) =>
         (broker.orders # <<>> /\ broker.orders[1].quantity = 1)

\* A market buy was placed: it is the first order of the broker.
BuyPlaced == epc \in {"wait", "stop", "done", "not_filled"} /\ broker.orders # <<>>

\* C21: the quantity of the market buy of an accepted entry is
\* floor(allocation_size / quote_price) with allocation_size =
\* (allocation / 100) * account_base: the largest number of shares whose cost at the
\* quote is within the allocation size; allocation 4, account base 100000 and quote
\* 38 give 105 shares.
C21_QuantityIsFloor ==
  BuyPlaced =>
    /\ broker.orders[1].quantity * broker.price * 100 <= AllocationSize
    /\ (broker.orders[1].quantity + 1) * broker.price * 100 > AllocationSize
    /\ (args.allocation = 4 /\ broker.account_base = 100000 /\ broker.price = 38) =>
         broker.orders[1].quantity = 105

\* The stop orders the broker has.
StopOrders == {i \in 1 .. Len(broker.orders) : broker.orders[i].type = "stop"}

\* C22: when a stop loss was requested and the market buy is filled, enter places
\* exactly one stop order, its stop price the fill price of the market buy times
\* (1 - stop_pct / 100) and its quantity the executed quantity of the filled order.
C22_StopAtFillPrice ==
  (epc = "done" /\ args.stop_loss # 0) =>
    /\ Cardinality(StopOrders) = 1
    /\ \A i \in StopOrders :
         /\ broker.orders[i].stop = entry_order.avg_fill_price * (100 - args.stop_loss)
         /\ broker.orders[i].quantity = entry_order.executed_quantity

(***************************************************************************)
(* Claims about the exit command and about broker failures.                *)
(***************************************************************************)
\* The orders of the broker that are open and of the symbol of the call.
OpenOfSymbol ==
  {o \in DOMAIN book.orders :
     book.orders[o].status = "open" /\ Lower(book.orders[o].name) = Lower(exit_name)}

\* C23: exit_ of a held symbol cancels every open order of the symbol and waits for
\* every cancellation to complete before it places the market sell: when the sell is
\* placed no order of the symbol is open any more and every cancellation issued has
\* completed; the sell is for the full size of the position, and there is one sell.
C23_CancelThenSell ==
  /\ [][book'.sells # book.sells =>
          /\ OpenOfSymbol = {}
          /\ cancels.completed = cancels.issued
          /\ book.sells = <<>>]_vars
  /\ [](kpc = "cancel" => cancels.issued \ cancels.completed = OpenOfSymbol)
  /\ [](kpc = "done" =>
          /\ Len(book.sells) = 1
          /\ book.sells[1].name = exit_name
          /\ \E q \in DOMAIN book.positions :
               /\ Lower(q) = Lower(exit_name)
               /\ book.sells[1].quantity = book.positions[q])

\* exit_ a has ended: A was held with size 7, both of its open orders were
\* cancelled, then the sell of 7 was placed.
C23_Witness ==
  /\ kpc = "done"
  /\ exit_name = "a"
  /\ "A" \in DOMAIN book.positions
  /\ book.positions["A"] = 7
  /\ Cardinality(cancels.completed) = 2
  /\ book.sells = << [name |-> "a", quantity |-> 7] >>

\* C24: a broker failure ends the operation that met it and nothing follows it: a
\* failed cancellation in exit_ leaves no market sell placed; a failed placement of
\* the market buy in enter leaves no order, no poll and no stop order; a failed
\* balance, quote, position or order query leaves nothing placed or cancelled; and
\* an operation that has raised does nothing more.
C24_BrokerFailureIsFatal ==
  /\ [](kpc # "off" =>
          /\ cancels.failed # {} => (book.sells = <<>> /\ kpc = "raised")
          /\ kpc = "raised" => book.sells = <<>>)
  /\ [][(kpc = "gather" /\ kpc' = "raised") =>
          (cancels'.issued = {} /\ cancels'.completed = {} /\ book' = book)]_vars
  /\ [][(epc \in {"gather", "buy"} /\ epc' = "raised") =>
          (broker.orders = <<>> /\ broker' = broker /\ entry_order' = NoOrder)]_vars
  /\ [][epc = "raised" => UNCHANGED enterVars]_vars
  /\ [][kpc = "raised" => UNCHANGED exitVars]_vars

\* exit_ has raised on the failure of the second of two cancellations: one order of
\* the symbol is cancelled, the other still open, and no sell is placed.
C24_Witness ==
  /\ kpc = "raised"
  /\ Cardinality(cancels.completed) = 1
  /\ Cardinality(cancels.failed) = 1
  /\ book.sells = <<>>


\* C25: when rebalance or an in-loop fetch_symbols raises, the scheduler loop goes
\* on: the call that raised is followed by the loop's sleep and the next tick, so
\* the loop is never over.  run awaits both calls with no handler around them
\* (run.py:187-217), so the first error ends the loop.
C25_LoopSurvivesErrors ==
  [][(pc \in {"rebalancing", "refreshing"}) => (pc' = "loop")]_vars

\* C26: a failure of the data provider or of the balance query inside fetch_symbols
\* leaves the call without a returned list, then and later; the error leaves run's
\* loop as well, and the cached universe and the day of the last refresh are what
\* they were before the call.
C26_FailedFetchKeepsCache ==
  /\ [][(fpc \in {"tickers", "prices", "balance"} /\ fpc' # "returned")
         => (symbols' = symbols /\ last_symbol_refresh' = last_symbol_refresh)]_vars
  /\ [][(fpc = "raised") => (fpc' = "raised" /\ UNCHANGED schedVars)]_vars
  /\ [](fpc = "raised" => pc = "stopped")

\* The balance query failed after the prices had been read; the cache is the one
\* of the day before.
C26_Witness ==
  /\ fpc = "raised"
  /\ daily_prices # <<>>
  /\ symbols = <<[kind |-> "a", n |-> 1]>>
  /\ last_symbol_refresh = 0

\* C29: every symbol of the universe that a refresh issued by run caches had a
\* daily close of at most account_base * allocation for an allocation in (0, 1],
\* so of at most account_base.
C29_UniverseWithinAccountBase ==
  fpc = "returned" =>
    \A i \in 1 .. Len(symbols) :
      DailyPrice[symbols[i].kind].close <= market.account_base

\* The number of symbols of kind k in list s.
KeptOf(k, s) ==
  IF \E i \in 1 .. Len(s) : s[i].kind = k
  THEN (CHOOSE e \in {s[i] : i \in 1 .. Len(s)} : e.kind = k).n
  ELSE 0

\* C30: fetch_symbols returns at most 4000 symbols, each of them a priced symbol of
\* the filtered listing with a close of at most max_price, and no such symbol that
\* is left out has a strictly higher volume than a returned one.
C30_HighestVolumeAffordable ==
  fpc = "returned" =>
    LET max_price == market.account_base * market.allocation IN
      /\ SumOf([i \in 1 .. Len(symbols) |-> symbols[i].n]) <= UniverseLimit
      /\ \A i \in 1 .. Len(symbols) :
           /\ DailyPrice[symbols[i].kind].close <= max_price
           /\ symbols[i].n >= 1
           /\ symbols[i].n <= KeptOf(symbols[i].kind, daily_prices)
           /\ \A j \in 1 .. Len(symbols) : symbols[j].kind = symbols[i].kind => j = i
      /\ \A j \in 1 .. Len(daily_prices) :
           LET e == daily_prices[j] IN
             (DailyPrice[e.kind].close <= max_price /\ KeptOf(e.kind, symbols) < e.n)
               => \A i \in 1 .. Len(symbols) :
                    DailyPrice[e.kind].volume <= DailyPrice[symbols[i].kind].volume

\* 4001 affordable symbols: the one of the higher volume and 3999 of the 4000 of the
\* lower volume are returned, one of the lower volume is left out.
C30_Witness ==
  /\ fpc = "returned"
  /\ symbols = <<[kind |-> "a", n |-> UniverseLimit - 1], [kind |-> "c", n |-> 1]>>
  /\ KeptOf("a", daily_prices) = UniverseLimit

\* The series of symbol s is empty, has fewer than two points, is constant, or is not
\* a list of bars.
Degenerate(data) ==
  \/ data.kind # "list"
  \/ Len(data.bars) < 2
  \/ \A i, j \in 1 .. Len(data.bars) : data.bars[i] = data.bars[j]

C28_TargetIsTopSlice ==
  rpc = "ranked" =>
    /\ Cardinality(top_ranked_momentum) <= 25
    /\ \A s \in top_ranked_momentum :
         /\ \E e \in momentum_quality : e[1] = s
         /\ result[s].kind = "list"
         /\ ~BelowThreshold(LastN(result[s].bars, look_back_period))
    /\ \A e, u \in momentum_quality :
         (e[1] \in top_ranked_momentum /\ u[1] \notin top_ranked_momentum)
           => u[2][1] * e[2][2] <= e[2][1] * u[2][2]
    /\ (\E u \in momentum_quality : u[1] \notin top_ranked_momentum)
         => Cardinality(top_ranked_momentum) = 25

\* 27 candidates of rising slopes: the two of the lowest slopes, symbols 1 and 4,
\* are left out of the 25.
C28_Witness ==
  /\ rpc = "ranked"
  /\ Cardinality(momentum_quality) = 27
  /\ result[4] = JsonList(<<10, 12>>)
  /\ top_ranked_momentum = {3 * k + 1 : k \in 2 .. 26}

\* The symbols of the first k chunks, in the order of the universe.
FirstChunks(k) == SubSeq(symbols, 1, k * ChunkSize)

\* C31: the chunks are taken in the order of the universe list: the fetches of
\* chunk k+1 are started only when every symbol of chunk k has returned, and the
\* results accumulated for scoring are those of the chunks gathered so far in the
\* order of the universe, whatever the order in which the fetches returned.
C31_ChunksInUniverseOrder ==
  /\ [][chunk' # chunk =>
          /\ chunk' = chunk + 1
          /\ chunk >= 1 => (\A j \in 1 .. ChunkSize :
                              \E i \in 1 .. Len(completed) :
                                completed[i] = symbols[(chunk - 1) * ChunkSize + j])
          /\ gathered = FirstChunks(chunk)]_vars
  /\ [](bpc = "gather" => gathered = FirstChunks(chunk - 1))
  /\ [](bpc \in {"sleep", "for", "done"} => gathered = FirstChunks(chunk))

\* The fetches of the second chunk returned in the reverse order, symbol 200 first;
\* the results are the symbols 1 .. 200 in order.
C31_Witness ==
  /\ bpc = "sleep"
  /\ chunk = 2
  /\ completed[1] = 200
  /\ completed[ChunkSize] = 101
  /\ gathered = Universe(2 * ChunkSize)

\* C32: a rebalance, whether it returns or raises, leaves the universe cache and the
\* day of the last refresh as they were, and a universe refresh, whether it returns
\* or raises, leaves the day of the last rebalance as it was.
C32_RebalanceStateFrame ==
  /\ [][pc = "rebalancing" =>
          (symbols' = symbols /\ last_symbol_refresh' = last_symbol_refresh)]_vars
  /\ [][pc = "refreshing" => last_rebalance' = last_rebalance]_vars

\* On day 1 the universe was refreshed before the open and a rebalance has returned
\* after it: the universe is the refreshed one, both days are day 1.
C32_Witness ==
  /\ pc = "loop"
  /\ today = 1
  /\ refreshCount[1] = 1
  /\ rebalCount[1] = 1
  /\ last_rebalance = 1
  /\ last_symbol_refresh = 1
  /\ symbols = <<"BBB", "AAA">>

\* C36: last_rebalance becomes today only by the return of a rebalance: the start
\* of a rebalance and a rebalance that raises leave it at its previous value, which
\* is a day before today, and so does every step while a rebalance has not returned.
C36_RecordedOnlyOnReturn ==
  /\ [][last_rebalance' # last_rebalance =>
          (pc = "rebalancing" /\ pc' = "loop" /\ last_rebalance' = today)]_vars
  /\ [](pc = "rebalancing" => last_rebalance < today)
  /\ [][(pc = "rebalancing" /\ pc' = "stopped") =>
          (last_rebalance' = last_rebalance /\ last_rebalance' < today)]_vars

\* The rebalance of day 1 raised: the day of the last rebalance is still day 0,
\* whose rebalance had returned.
C36_Witness ==
  /\ pc = "stopped"
  /\ today = 1
  /\ rebalCount[1] = 1
  /\ rebalCount[0] = 1
  /\ last_rebalance = 0

\* C33: a stop order is placed only after the market buy was seen filled and only
\* when a stop loss was requested: a buy that ends rejected, expired, in error or
\* canceled ends enter with the market buy as the only order, and without a stop
\* loss requested no stop order is ever placed.
C33_StopOnlyAfterFilled ==
  /\ [](epc # "off" =>
          /\ StopOrders # {} => (entry_order.status = "filled" /\ args.stop_loss # 0)
          /\ epc = "stop" => entry_order.status = "filled"
          /\ entry_order.status \in {"rejected", "expired", "error", "canceled"} =>
               (epc = "not_filled" /\ Len(broker.orders) = 1)
          /\ args.stop_loss = 0 => StopOrders = {})
  /\ [][epc = "not_filled" => UNCHANGED enterVars]_vars

\* A stop loss of 10 per cent was requested and the market buy was rejected.
C33_Witness ==
  /\ epc = "not_filled"
  /\ args.stop_loss = 10
  /\ entry_order.status = "rejected"
  /\ Len(broker.orders) = 1
  /\ broker.orders[1].type = "market"

\* C37: the market buy of an entry that passed the checks is for at least one
\* share, and its quantity times the quote is at most the allocation size.
C37_QuantityWithinAllocation ==
  (epc # "off" /\ broker.orders # <<>>) =>
    /\ broker.orders[1].type = "market"
    /\ broker.orders[1].quantity >= 1
    /\ broker.orders[1].quantity * broker.price * 100 <= AllocationSize

\* Allocation 29 of an account base of 250 is 72.50: at a quote of 60 one share is
\* bought.
C37_Witness ==
  /\ epc = "wait"
  /\ args.allocation = 29
  /\ broker.account_base = 250
  /\ broker.price = 60
  /\ broker.orders[1].quantity = 1

\* A position of the symbol of exit_ is held, names compared without case.
HeldAtExit == \E p \in DOMAIN book.positions : Lower(p) = Lower(exit_name)

\* C34: exit_ for a symbol that is not held issues no cancellation and places no
\* sell: it ends after its two reads, and no step of it changes the broker's orders
\* or positions.
C34_NotHeldExitDoesNothing ==
  /\ [](kpc \in {"cancel", "sell", "done"} => HeldAtExit)
  /\ [](kpc = "not_held" =>
          (~HeldAtExit /\ cancels.issued = {} /\ book.sells = <<>>))
  /\ [][(kpc # "off" /\ ~HeldAtExit) => (book' = book /\ cancels' = cancels)]_vars
  /\ [][kpc = "not_held" => UNCHANGED exitVars]_vars

\* exit_ of "a" with only B held has ended; the open order of A is still open.
C34_Witness ==
  /\ kpc = "not_held"
  /\ exit_name = "a"
  /\ DOMAIN book.positions = {"B"}
  /\ book.orders[1] = [name |-> "A", status |-> "open"]

\* C35: exit_ for symbol S cancels only orders that are open and whose name is S
\* without regard to case: every cancellation it issues is for such an order, and
\* a step changes an order only by cancelling an open order of S.
C35_CancelsOnlyOpenOfSymbol ==
  /\ [](kpc # "off" =>
          \A o \in cancels.issued :
            /\ Lower(book.orders[o].name) = Lower(exit_name)
            /\ book.orders[o].status \in {"open", "canceled"}
            /\ book.orders[o].status = "canceled" <=> o \in cancels.completed)
  /\ [][kpc # "off" =>
          \A o \in DOMAIN book.orders :
            book'.orders[o] # book.orders[o] =>
              /\ book.orders[o].status = "open"
              /\ Lower(book.orders[o].name) = Lower(exit_name)
              /\ book'.orders[o] = [book.orders[o] EXCEPT !.status = "canceled"]]_vars

\* exit_ of "a" has sold: the open order of A was cancelled, the open order of B is
\* still open.
C35_Witness ==
  /\ kpc = "done"
  /\ exit_name = "a"
  /\ book.orders[1] = [name |-> "A", status |-> "canceled"]
  /\ book.orders[2] = [name |-> "B", status |-> "open"]

\* Name n is watched in list w, names compared without case.
Watched(n, w) == \E i \in 1 .. Len(w) : Lower(w[i].name) = Lower(n)

\* C38: from a watchlist with no two items of the same name without regard to case,
\* no sequence of add, remove and clear yields two such items; add of a watched name
\* leaves the list as it is, remove of a watched name leaves no item of that name,
\* and remove of a name that is not watched leaves the list as it is.
C38_WatchlistNamesUnique ==
  /\ [](command # <<>> =>
          \A i, j \in 1 .. Len(watchlist) :
            Lower(watchlist[i].name) = Lower(watchlist[j].name) => i = j)
  /\ [][(command # <<>> /\ command'.op = "add" /\ Watched(command'.name, watchlist))
         => watchlist' = watchlist]_vars
  /\ [][(command # <<>> /\ command'.op = "remove") =>
          /\ ~Watched(command'.name, watchlist')
          /\ ~Watched(command'.name, watchlist) => watchlist' = watchlist
          /\ \A i \in 1 .. Len(watchlist) :
               Lower(watchlist[i].name) # Lower(command'.name) =>
                 \E j \in 1 .. Len(watchlist') : watchlist'[j] = watchlist[i]]_vars

\* remove of "a" has taken the item A out of a list of A and b; b is left.
C38_Witness ==
  /\ command # <<>>
  /\ command.op = "remove"
  /\ command.name = "a"
  /\ watchlist = <<[name |-> "b", notes |-> "x"]>>

====
